---- MODULE Spec2Model ----
(***************************************************************************)
(* A model of the procedural narrative-event generator of simple-lake:     *)
(* the risk and stat calculators, the situation filter and generator, the  *)
(* handcrafted fallback of generate_event, and the egui application loop   *)
(* that requests events and resolves them.                                 *)
(*                                                                         *)
(* Integers.  TLC's integers are 32 bits wide and trap on overflow, so the *)
(* i32 arithmetic of the program is written with explicit wrap-around      *)
(* operators that never leave the i32 range themselves.  u32 inputs are    *)
(* sampled below 2^31; the u32 product gap * 5 is computed on the 32-bit   *)
(* pattern, which the cast `as i32` then reinterprets unchanged.           *)
(*                                                                         *)
(* Overflow.  Rust integer overflow panics when the build has overflow     *)
(* checks (the dev profile) and wraps when it has not (the release         *)
(* profile).  overflow_checks says which build is running.                 *)
(***************************************************************************)
EXTENDS Integers, Sequences, FiniteSets, TLC

VARIABLES
    \* ---- fields of LotusApp --------------------------------------------
    player_tier,            \* usize, 0 (D) .. 4 (A+)
    life_stage,             \* usize, 1 .. 4
    player_age,             \* u32
    player_petal,           \* usize, 0 .. num_petals_per_tier - 1
    social_credit_score,    \* i32
    finances,               \* i32
    career_level,           \* u32
    guanxi_family,          \* u32
    guanxi_network,         \* u32
    guanxi_party,           \* u32
    recent_event_domains,   \* VecDeque<EventDomain>
    encounter_history,      \* HashSet<String>
    situation_library,      \* SituationLibrary.by_domain
    event_database,         \* Vec<EventData>, the handcrafted events
    event_index,            \* HashMap<(stage, tier), (tier_specific, generic)>
    current_event,          \* Option<EventData>
    last_event_result,      \* Option<String>
    \* ---- history variable ----------------------------------------------
    session_log,            \* the procedural_id of every event generated so far
    \* ---- the call being observed ---------------------------------------
    call,                   \* the function applied and its explicit arguments
    locals,                 \* the locals the call went through
    ret,                    \* what the call returned
    overflow_checks        \* TRUE: dev profile, FALSE: release profile

appVars == <<player_tier, life_stage, player_age, player_petal,
             social_credit_score, finances, career_level, guanxi_family,
             guanxi_network, guanxi_party, recent_event_domains,
             encounter_history, situation_library, event_database,
             event_index, current_event, last_event_result, session_log>>

vars == <<appVars, call, locals, ret, overflow_checks>>

-----------------------------------------------------------------------------
(* Option, panic and "not called yet" values.                              *)

None == [kind |-> "None"]

Panic == [kind |-> "Panic"]

Pending == [kind |-> "Pending"]

NoCall == [fn |-> "none"]

NoLocals == [at |-> "none"]

-----------------------------------------------------------------------------
(* 32-bit arithmetic.                                                      *)

I32Max == 2147483647

I32Min == (-I32Max) - 1

\* a + b leaves the i32 range
add_overflows(a, b) ==
    \/ b >= 0 /\ a > I32Max - b
    \/ b < 0 /\ a < I32Min - b

\* a + b reduced modulo 2^32 into the i32 range
wrapping_add(a, b) ==
    IF b >= 0 /\ a > I32Max - b
    THEN ((a - I32Max) - 1) + ((b - I32Max) - 1)
    ELSE IF b < 0 /\ a < I32Min - b
         THEN ((a + I32Max) + 1) + ((b + I32Max) + 1)
         ELSE a + b

\* -a in i32: only i32::MIN has no negation
neg_overflows(a) == a = I32Min

wrapping_neg(a) == IF a = I32Min THEN I32Min ELSE -a

\* a / d of Rust, d > 0: the quotient truncated toward zero
trunc_div(a, d) == IF a >= 0 THEN a \div d ELSE (a + (d - 1)) \div d

\* u32::MAX / 5, with u32::MAX = 2 * i32::MAX + 1
U32MaxDiv5 == 2 * (I32Max \div 5) + (2 * (I32Max % 5) + 1) \div 5

\* the 32-bit pattern of g * 5 for a u32 g < 2^31, read as an i32
wrapping_mul5(g) ==
    LET g2 == wrapping_add(g, g)
        g4 == wrapping_add(g2, g2)
    IN  wrapping_add(g4, g)

\* saturating_sub on u32 values below 2^31
saturating_sub(a, b) == IF a > b THEN a - b ELSE 0

\* requirement maps: HashMap<String, u32> as a function on its key set
ReqMaps(keys, vals) == UNION {[S -> vals] : S \in SUBSET keys}

\* the orders in which a HashMap of these keys can be iterated
Orders(S) ==
    {o \in [1..Cardinality(S) -> S] :
        \A i, j \in 1..Cardinality(S) : i # j => o[i] # o[j]}

-----------------------------------------------------------------------------
(* risk_calculator.rs                                                      *)

\* the match on the stat name
risk_player_value(player_state, stat_name) ==
    CASE stat_name = "guanxi_family" -> player_state.guanxi_family
      [] stat_name = "guanxi_network" -> player_state.guanxi_network
      [] stat_name = "guanxi_party" -> player_state.guanxi_party
      [] stat_name = "career_level" -> player_state.career_level
      [] OTHER -> 0

\* the loop over the requirement entries, in iteration order `order`:
\* the running risk and whether any step overflowed
RECURSIVE risk_loop(_, _, _, _)
risk_loop(acc, order, requirements, player_state) ==
    IF order = <<>> THEN acc
    ELSE LET stat_name == Head(order)
             gap == saturating_sub(requirements[stat_name],
                                   risk_player_value(player_state, stat_name))
             term == wrapping_mul5(gap)
             step == [risk |-> wrapping_add(acc.risk, term),
                      overflowed |-> \/ acc.overflowed
                                     \/ gap > U32MaxDiv5
                                     \/ add_overflows(acc.risk, term)]
         IN  risk_loop(step, Tail(order), requirements, player_state)

clamp(x, lo, hi) == IF x < lo THEN lo ELSE IF x > hi THEN hi ELSE x

RiskCap == 95

\* calculate_risk clamping to 0..100, the range of a percentage
calculate_risk_percent(base_risk, risk_modifier, requirements, player_state, order, checks) ==
    LET looped == risk_loop([risk |-> base_risk, overflowed |-> FALSE],
                            order, requirements, player_state)
        overflowed == looped.overflowed \/ add_overflows(looped.risk, risk_modifier)
        risk == wrapping_add(looped.risk, risk_modifier)
    IN  IF checks /\ overflowed THEN Panic
        ELSE [kind |-> "Value", value |-> clamp(risk, 0, RiskCap + 5)]

calculate_risk(base_risk, risk_modifier, requirements, player_state, order, checks) ==
    LET looped == risk_loop([risk |-> base_risk, overflowed |-> FALSE],
                            order, requirements, player_state)
        overflowed == looped.overflowed \/ add_overflows(looped.risk, risk_modifier)
        risk == wrapping_add(looped.risk, risk_modifier)
    IN  IF checks /\ overflowed THEN Panic
        ELSE [kind |-> "Value", value |-> clamp(risk, 0, RiskCap)]

-----------------------------------------------------------------------------
(* stat_calculator.rs                                                      *)

StatFields == {"scs_change", "finance_change", "career_level_change",
               "guanxi_family_change", "guanxi_network_change",
               "guanxi_party_change"}

\* severity_multiplier as a fraction
severity_multiplier(severity) ==
    CASE severity = "Low" -> [num |-> 1, den |-> 2]
      [] severity = "Medium" -> [num |-> 1, den |-> 1]
      [] severity = "High" -> [num |-> 2, den |-> 1]

\* the cast rounding toward minus infinity instead of toward zero
cast_i32_floor(num, den) == clamp(num \div den, I32Min, I32Max)

\* the float-to-int cast `as i32`: truncation toward zero, saturating
cast_i32(num, den) == clamp(trunc_div(num, den), I32Min, I32Max)

\* random_variance is variance8 / 8; tier_multiplier is (tier + 1) * 3 / 2
calculate_stats(base_stats, tier, severity, variance8) ==
    LET sev == severity_multiplier(severity)
        num == (tier + 1) * 3 * sev.num * variance8
        den == 2 * sev.den * 8
    IN  [f \in StatFields |-> cast_i32(base_stats[f] * num, den)]

\* -x * 3 overflows i32
failure_field_overflows(x) ==
    LET n == wrapping_neg(x)
        n2 == wrapping_add(n, n)
    IN  neg_overflows(x) \/ add_overflows(n, n) \/ add_overflows(n2, n)

\* -x * 3 / 2 with wrap-around
failure_field(x) ==
    LET n == wrapping_neg(x)
        n2 == wrapping_add(n, n)
    IN  trunc_div(wrapping_add(n2, n), 2)

calculate_failure_stats(success_stats, checks) ==
    IF checks /\ \E f \in StatFields : failure_field_overflows(success_stats[f])
    THEN Panic
    ELSE [kind |-> "Value",
          value |-> [f \in StatFields |-> failure_field(success_stats[f])]]

-----------------------------------------------------------------------------
(* Option values and small helpers.                                        *)

Some(v) == [kind |-> "Some", value |-> v]

Min(a, b) == IF a < b THEN a ELSE b

Max(a, b) == IF a > b THEN a ELSE b

RECURSIVE SumSeq(_)
SumSeq(s) == IF s = <<>> THEN 0 ELSE Head(s) + SumSeq(Tail(s))

RECURSIVE Flatten(_)
Flatten(ss) == IF ss = <<>> THEN <<>> ELSE Head(ss) \o Flatten(Tail(ss))

-----------------------------------------------------------------------------
(* library.rs                                                              *)

\* EventDomain, with as_str
EventDomain == {"Family", "Work", "Public", "Party"}

\* the order in which by_domain.values() is walked; any order of the four
\* keys is possible, and it only permutes the candidate list
DomainOrder == <<"Family", "Work", "Public", "Party">>

Severity == {"Low", "Medium", "High"}

ChoiceType == {"conform", "resist", "manipulate", "ignore"}

\* a content file that toml::from_str rejects (bad syntax, a missing field)
Unparsable == [kind |-> "Unparsable"]

\* a content file that parses into a SituationConfig
Parsed(situations) == [kind |-> "Parsed", situations |-> situations]

\* the content file whose situations are stored under each domain
ConfigFile ==
    [d \in EventDomain |->
        CASE d = "Work" -> "work_events"
          [] d = "Family" -> "family_events"
          [] d = "Public" -> "public_events"
          [] d = "Party" -> "party_events"]

\* SituationLibrary::from_embedded_configs: an error when a file does not
\* parse, else the library holding each file's situations under its domain
from_embedded_configs(configs) ==
    IF \E f \in DOMAIN configs : configs[f].kind = "Unparsable"
    THEN [kind |-> "Err"]
    ELSE [kind |-> "Ok",
          value |-> [by_domain |->
                        [d \in EventDomain |-> configs[ConfigFile[d]].situations]]]

-----------------------------------------------------------------------------
(* text_assembly.rs                                                        *)

\* the three fragments drawn, before substitution; a panic on an empty list
assemble_description(fragments) ==
    IF fragments.openings = <<>> \/ fragments.conflicts = <<>>
       \/ fragments.stakes = <<>>
    THEN {Panic}
    ELSE {[kind |-> "Value",
           value |-> <<fragments.openings[i], fragments.conflicts[j],
                       fragments.stakes[k]>>] :
            i \in DOMAIN fragments.openings,
            j \in DOMAIN fragments.conflicts,
            k \in DOMAIN fragments.stakes}

assemble_choice_text(text_fragments) ==
    IF text_fragments = <<>> THEN {Panic}
    ELSE {[kind |-> "Value", value |-> text_fragments[i]] :
            i \in DOMAIN text_fragments}

\* text.contains(placeholder), on a text held as its sequence of words and
\* placeholders
text_contains(text, placeholder) == \E i \in DOMAIN text : text[i] = placeholder

\* text.replace(placeholder, value): every occurrence replaced
text_replace(text, placeholder, value) ==
    [i \in DOMAIN text |-> IF text[i] = placeholder THEN value ELSE text[i]]

\* the placeholders of the substitute! calls and the field of
\* VariableLibraries each one draws from, in the order of the calls
SubstitutionTable ==
    <<<<"{excuse}", "excuse_library">>,
      <<"{work_time}", "work_time">>,
      <<"{work_colleague}", "work_colleague">>,
      <<"{work_day}", "work_day">>,
      <<"{work_obligation}", "work_obligation">>,
      <<"{work_record}", "work_record">>,
      <<"{overtime_period}", "overtime_period">>,
      <<"{work_project}", "work_project">>,
      <<"{safety_violation}", "safety_violation">>,
      <<"{political_metric}", "political_metric">>,
      <<"{monitoring_target}", "monitoring_target">>,
      <<"{political_team_activity}", "political_team_activity">>,
      <<"{work_mistake}", "work_mistake">>,
      <<"{bribe_amount}", "bribe_amount">>,
      <<"{work_decision}", "work_decision">>,
      <<"{relationship_type}", "relationship_types">>,
      <<"{parent_type}", "parent_type">>,
      <<"{sibling_type}", "sibling_type">>,
      <<"{relative_type}", "relative_type">>,
      <<"{small_amount}", "small_amount">>,
      <<"{medium_amount}", "medium_amount">>,
      <<"{large_amount}", "large_amount">>,
      <<"{time_period}", "time_period">>,
      <<"{authority_figure}", "authority_figure">>,
      <<"{infraction}", "infraction">>,
      <<"{unpractical_subject}", "unpractical_subject">>,
      <<"{practical_subject}", "practical_subject">>,
      <<"{personal_topic}", "personal_topic">>,
      <<"{successful_relative}", "successful_relative">>,
      <<"{unsuitable_match}", "unsuitable_match">>,
      <<"{political_topic}", "political_topic">>,
      <<"{day_time}", "day_time">>,
      <<"{time_duration}", "time_duration">>,
      <<"{party_observer}", "party_observer">>,
      <<"{membership_level}", "membership_level">>,
      <<"{party_official}", "party_official">>,
      <<"{controversial_topic}", "controversial_topic">>,
      <<"{denouncement_target}", "denouncement_target">>,
      <<"{political_crime}", "political_crime">>,
      <<"{volunteer_activity}", "volunteer_activity">>,
      <<"{party_elite}", "party_elite">>,
      <<"{favor_request}", "favor_request">>,
      <<"{propaganda_campaign}", "propaganda_campaign">>,
      <<"{propaganda_activity}", "propaganda_activity">>,
      <<"{stranger_type}", "stranger_type">>,
      <<"{small_favor}", "small_favor">>,
      <<"{public_place}", "public_place">>,
      <<"{appointment_type}", "appointment_type">>,
      <<"{public_violation}", "public_violation">>,
      <<"{violation_perpetrator}", "violation_perpetrator">>,
      <<"{public_service}", "public_service">>,
      <<"{queue_jumper}", "queue_jumper">>,
      <<"{public_transport}", "public_transport">>,
      <<"{seat_requester}", "seat_requester">>,
      <<"{suspicious_behavior}", "suspicious_behavior">>,
      <<"{survey_topic}", "survey_topic">>>>

\* a Vec<String> field of VariableLibraries; a field the file leaves out is
\* the empty list (serde default)
variable_list(variables, field) ==
    IF field \in DOMAIN variables.lists THEN variables.lists[field] ELSE <<>>

\* the macro substitute!: every text one draw from the list can give
substitute(text, placeholder, list) ==
    IF list # <<>> /\ text_contains(text, placeholder)
    THEN {text_replace(text, placeholder, list[i]) : i \in DOMAIN list}
    ELSE {text}

\* the substitute! calls from position k of the table on
RECURSIVE substitute_from(_, _, _)
substitute_from(texts, variables, k) ==
    IF k > Len(SubstitutionTable) THEN texts
    ELSE substitute_from(
             UNION {substitute(t, SubstitutionTable[k][1],
                               variable_list(variables, SubstitutionTable[k][2])) :
                       t \in texts},
             variables, k + 1)

\* colleague_descriptors.get(tier).or_else(|| get("2"))
colleague_descriptors_for(variables, tier) ==
    IF ToString(tier) \in DOMAIN variables.colleague_descriptors
    THEN Some(variables.colleague_descriptors[ToString(tier)])
    ELSE IF "2" \in DOMAIN variables.colleague_descriptors
         THEN Some(variables.colleague_descriptors["2"])
         ELSE None

\* every text substitute_variables can return, or a panic
substitute_variables(text, variables, tier) ==
    LET descriptors == colleague_descriptors_for(variables, tier)
        finish(texts) ==
            {[kind |-> "Value", value |-> t] : t \in substitute_from(texts, variables, 1)}
    IN  IF ~text_contains(text, "{colleague_descriptor}") THEN finish({text})
        ELSE IF descriptors.kind = "None" THEN {Panic}
        ELSE IF descriptors.value = <<>> THEN finish({text})
        ELSE finish({text_replace(text, "{colleague_descriptor}", descriptors.value[i]) :
                        i \in DOMAIN descriptors.value})

-----------------------------------------------------------------------------
(* generator.rs                                                            *)

\* the tier filter without the tolerance of one tier
tier_ok_exact(s, tier) == s.tier_min <= tier /\ s.tier_max >= tier

\* Tier filter: player_tier +- 1
tier_ok(s, tier) ==
    s.tier_min <= tier + 1 /\ s.tier_max >= saturating_sub(tier, 1)

\* the life stage filter without the tolerance of one stage
stage_ok_current_only(s, stage) ==
    s.life_stage_min <= stage /\ s.life_stage_max >= stage

\* Life stage filter: current or previous stage
stage_ok(s, stage) ==
    /\ s.life_stage_min <= stage
    /\ s.life_stage_max >= Max(saturating_sub(stage, 1), 1)

\* the encounter history filter looking up the domain instead of the id
not_encountered_by_domain(s, history) == s.domain \notin history

\* Encounter history filter
not_encountered(s, history) == s.id \notin history

\* take(1) instead of take(2)
last_one_domain(recent_domains) ==
    {recent_domains[i] : i \in 1..Min(1, Len(recent_domains))}

\* recent_domains.iter().take(2): the two entries at the front of the deque
last_two_domains(recent_domains) ==
    {recent_domains[i] : i \in 1..Min(2, Len(recent_domains))}

\* the recent domain filter applied whatever the wildcard flag is
domain_ok_never_wildcard(s, recent_domains, allow_wildcard) ==
    s.domain \notin last_two_domains(recent_domains)

\* Recent domain filter
domain_ok(s, recent_domains, allow_wildcard) ==
    allow_wildcard \/ s.domain \notin last_two_domains(recent_domains)

filter_situations(situations, tier, stage, recent_domains, history, allow_wildcard) ==
    LET keep(s) == /\ tier_ok(s, tier)
                   /\ stage_ok(s, stage)
                   /\ not_encountered(s, history)
                   /\ domain_ok(s, recent_domains, allow_wildcard)
    IN  SelectSeq(situations, keep)

\* the match on the requirement key
generator_player_value(player_state, key) ==
    CASE key = "guanxi_family" -> player_state.guanxi_family
      [] key = "guanxi_network" -> player_state.guanxi_network
      [] key = "guanxi_party" -> player_state.guanxi_party
      [] key = "career_level" -> player_state.career_level
      [] OTHER -> 0

\* the requirement check accepting a choice as soon as one entry is met
generator_player_meets_any_requirement(player_state, requirements) ==
    \/ DOMAIN requirements = {}
    \/ \E key \in DOMAIN requirements :
          ~(generator_player_value(player_state, key) < requirements[key])

generator_player_meets_requirements(player_state, requirements) ==
    \A key \in DOMAIN requirements :
        ~(generator_player_value(player_state, key) < requirements[key])

\* all situations of all domains
all_situations(library) ==
    Flatten([i \in DOMAIN DomainOrder |-> library.by_domain[DomainOrder[i]]])

\* the weight with the bonus for an exact tier match only
selection_weight_tier_only(s, player_state) ==
    IF s.tier_min <= player_state.player_tier
       /\ s.tier_max >= player_state.player_tier THEN 2 ELSE 1

\* the weight of a candidate: 1, doubled for an exact tier match and
\* doubled for an exact stage match
selection_weight(s, player_state) ==
    (IF s.tier_min <= player_state.player_tier
        /\ s.tier_max >= player_state.player_tier THEN 2 ELSE 1)
    * (IF s.life_stage_min <= player_state.life_stage
          /\ s.life_stage_max >= player_state.life_stage THEN 2 ELSE 1)

\* all situations of all domains, for one order in which the HashMap
\* by_domain yields its values
all_situations_in(library, order) ==
    Flatten([i \in DOMAIN order |-> library.by_domain[order[i]]])

\* WeightedIndex::sample: the uniform draw x8 / 8 of [0, 1) scaled to the
\* total weight, and the first position whose cumulative weight exceeds it
weighted_pick(weights, x8) ==
    LET target == (x8 * SumSeq(weights)) \div 8
        cumulative(i) == SumSeq(SubSeq(weights, 1, i))
    IN  CHOOSE i \in DOMAIN weights :
            /\ cumulative(i) > target
            /\ \A j \in 1..(i - 1) : cumulative(j) <= target

\* the situation generate_procedural_event selects, for one iteration order
\* of by_domain and one pair of draws (the wildcard flag, the weighted draw)
select_situation(player_state, order, allow_wildcard, x8) ==
    LET candidates ==
            filter_situations(
                all_situations_in(player_state.situation_library, order),
                player_state.player_tier, player_state.life_stage,
                player_state.recent_event_domains,
                player_state.encounter_history, allow_wildcard)
        weights == [i \in DOMAIN candidates |->
                      selection_weight(candidates[i], player_state)]
    IN  IF candidates = <<>> THEN None
        ELSE Some(candidates[weighted_pick(weights, x8)])

\* the samples of random_variance (in eighths) the model draws from 0.8..=1.2:
\* values a 32-bit float holds exactly, so that the products are exact
VarianceSamples == {7, 9}

\* a PlayerStats with every stat at zero
risk_player_stats_blank(player_state) ==
    [guanxi_family |-> 0, guanxi_network |-> 0, guanxi_party |-> 0,
     career_level |-> 0]

\* the PlayerStats handed to calculate_risk
risk_player_stats(player_state) ==
    [guanxi_family |-> player_state.guanxi_family,
     guanxi_network |-> player_state.guanxi_network,
     guanxi_party |-> player_state.guanxi_party,
     career_level |-> player_state.career_level]

\* the closure that builds one EventOption, for one drawn text, one drawn
\* random_variance and one iteration order of the requirements
event_option(choice, s, player_state, checks, text, v8, order) ==
    LET success == calculate_stats(choice.base_stats, player_state.player_tier,
                                   s.severity, v8)
        failure == calculate_failure_stats(success, checks)
        risk == calculate_risk(s.base_risk, choice.risk_modifier,
                               choice.requirements,
                               risk_player_stats(player_state), order, checks)
    IN  IF text.kind = "Panic" \/ failure.kind = "Panic" \/ risk.kind = "Panic"
        THEN Panic
        ELSE [kind |-> "Value",
              value |->
                [text |-> text.value,
                 requirements |-> choice.requirements,
                 risk_chance |-> risk.value,
                 success_outcome |-> success,
                 success_result |->
                     <<"You chose to", choice.archetype,
                       IF success.scs_change > 0 THEN "Things went well."
                       ELSE "There were consequences.">>,
                 failure_outcome |-> Some(failure.value),
                 failure_result |->
                     <<"You chose to", choice.archetype, "but it backfired.">>]]

\* every EventOption the draws allow for one choice
event_options_of(choice, s, player_state, checks) ==
    {event_option(choice, s, player_state, checks, text, v8, order) :
        text \in assemble_choice_text(choice.text_fragments),
        v8 \in VarianceSamples,
        order \in Orders(DOMAIN choice.requirements)}

\* the collection putting the options in the reverse of the authored order
RECURSIVE collect_options_reversed(_, _, _, _)
collect_options_reversed(choices, s, player_state, checks) ==
    IF choices = <<>> THEN {[kind |-> "Value", value |-> <<>>]}
    ELSE {IF first.kind = "Panic" \/ rest.kind = "Panic" THEN Panic
          ELSE [kind |-> "Value", value |-> rest.value \o <<first.value>>] :
            first \in event_options_of(Head(choices), s, player_state, checks),
            rest \in collect_options_reversed(Tail(choices), s, player_state, checks)}

\* available_choices.iter().map(..).collect(): every option list the draws
\* allow, or a panic
RECURSIVE collect_options(_, _, _, _)
collect_options(choices, s, player_state, checks) ==
    IF choices = <<>> THEN {[kind |-> "Value", value |-> <<>>]}
    ELSE {IF first.kind = "Panic" \/ rest.kind = "Panic" THEN Panic
          ELSE [kind |-> "Value", value |-> <<first.value>> \o rest.value] :
            first \in event_options_of(Head(choices), s, player_state, checks),
            rest \in collect_options(Tail(choices), s, player_state, checks)}

\* the assembly without the test for an empty list of available choices
assemble_event_keeping_empty(s, player_state, checks) ==
    LET available_choices ==
            SelectSeq(s.choices,
                      LAMBDA c : generator_player_meets_requirements(
                                     player_state, c.requirements))
    IN  {IF description.kind = "Panic" \/ options.kind = "Panic" THEN Panic
         ELSE Some([title |-> <<s.domain, s.severity, "Severity">>,
                    description |-> description.value,
                    options |-> options.value,
                    min_tier |-> s.tier_min,
                    max_tier |-> s.tier_max,
                    is_generic |-> FALSE,
                    life_stage |-> player_state.life_stage,
                    procedural_id |-> Some(s.id),
                    procedural_domain |-> Some(s.domain)]) :
            description \in assemble_description(s.fragments),
            options \in collect_options(available_choices, s, player_state, checks)}

\* the part of generate_procedural_event after the situation is selected
assemble_event(s, player_state, checks) ==
    LET available_choices ==
            SelectSeq(s.choices,
                      LAMBDA c : generator_player_meets_requirements(
                                     player_state, c.requirements))
    IN  {IF description.kind = "Panic" THEN Panic
         ELSE IF available_choices = <<>> THEN None
         ELSE IF options.kind = "Panic" THEN Panic
         ELSE Some([title |-> <<s.domain, s.severity, "Severity">>,
                    description |-> description.value,
                    options |-> options.value,
                    min_tier |-> s.tier_min,
                    max_tier |-> s.tier_max,
                    is_generic |-> FALSE,
                    life_stage |-> player_state.life_stage,
                    procedural_id |-> Some(s.id),
                    procedural_domain |-> Some(s.domain)]) :
            description \in assemble_description(s.fragments),
            options \in collect_options(available_choices, s, player_state, checks)}

\* every run of generate_procedural_event the random draws allow: the
\* wildcard flag drawn, the candidates, the situation selected and the result
generate_procedural_event(player_state, checks) ==
    UNION {
        LET candidates ==
                filter_situations(all_situations(player_state.situation_library),
                                  player_state.player_tier,
                                  player_state.life_stage,
                                  player_state.recent_event_domains,
                                  player_state.encounter_history,
                                  allow_wildcard)
            weights == [i \in DOMAIN candidates |->
                          selection_weight(candidates[i], player_state)]
            run(selected, result) ==
                [allow_wildcard |-> allow_wildcard, candidates |-> candidates,
                 selected |-> selected, result |-> result]
        IN  IF candidates = <<>> THEN {run(None, None)}
            ELSE IF SumSeq(weights) = 0 THEN {run(None, None)}
            ELSE UNION {
                    {run(Some(candidates[i]), result) :
                        result \in assemble_event(candidates[i], player_state, checks)} :
                    i \in {j \in DOMAIN candidates : weights[j] > 0}}
        : allow_wildcard \in BOOLEAN}

-----------------------------------------------------------------------------
(* game_data.rs                                                            *)

\* EventOutcome::default()
DefaultOutcome == [f \in StatFields |-> 0]

\* the match on the requirement key
game_data_player_value(player_state, key) ==
    CASE key = "guanxi_family" -> player_state.guanxi_family
      [] key = "guanxi_network" -> player_state.guanxi_network
      [] key = "guanxi_party" -> player_state.guanxi_party
      [] key = "career_level" -> player_state.career_level
      [] OTHER -> 0

\* the requirement check that lets every option through
game_data_player_meets_anything(player_state, requirements) == TRUE

game_data_player_meets_requirements(player_state, requirements) ==
    \A key \in DOMAIN requirements :
        ~(game_data_player_value(player_state, key) < requirements[key])

\* event_index.get(&key): the entry, or None
index_get(index, key) ==
    IF key \in DOMAIN index THEN Some(index[key]) ELSE None

\* step 1 reading the generic half of the index entry
tier_specific_events_generic(player_state) ==
    LET got == index_get(player_state.event_index,
                         <<player_state.life_stage, player_state.player_tier>>)
    IN  IF got.kind = "Some" THEN got.value.generic ELSE <<>>

\* 1. tier-specific events of the current stage
tier_specific_events(player_state) ==
    LET got == index_get(player_state.event_index,
                         <<player_state.life_stage, player_state.player_tier>>)
    IN  IF got.kind = "Some" THEN got.value.tier_specific ELSE <<>>

\* 2. generic events of the current stage
generic_events(player_state) ==
    LET got == index_get(player_state.event_index,
                         <<player_state.life_stage, player_state.player_tier>>)
    IN  IF got.kind = "Some" THEN got.value.generic ELSE <<>>

\* step 3 looking the past stages up under the tier below the player's
RECURSIVE past_stage_events_tier_below(_, _)
past_stage_events_tier_below(player_state, stage) ==
    IF stage < 1 THEN <<>>
    ELSE LET got == index_get(player_state.event_index,
                              <<stage, player_state.player_tier - 1>>)
         IN  (IF got.kind = "Some" THEN got.value.generic ELSE <<>>)
             \o past_stage_events_tier_below(player_state, stage - 1)

\* 3. for stage in (1..current_stage).rev(): the generic events of every
\* past stage, appended from stage `stage` down to stage 1
RECURSIVE past_stage_events(_, _)
past_stage_events(player_state, stage) ==
    IF stage < 1 THEN <<>>
    ELSE LET got == index_get(player_state.event_index,
                              <<stage, player_state.player_tier>>)
         IN  (IF got.kind = "Some" THEN got.value.generic ELSE <<>>)
             \o past_stage_events(player_state, stage - 1)

\* the keys step 3 looks up, in order
past_stage_keys(player_state) ==
    [i \in 1..(player_state.life_stage - 1) |->
        <<player_state.life_stage - i, player_state.player_tier>>]

\* the placeholder with a requirement on its only option
NoEventFoundGated(player_state) ==
    [title |-> <<"No Event Found!">>,
     description |-> <<"Error: No events found for player tier",
                       ToString(player_state.player_tier), "and life stage",
                       ToString(player_state.life_stage)>>,
     options |-> <<[text |-> <<"Continue">>,
                    requirements |-> [k \in {"career_level"} |-> 1],
                    risk_chance |-> 0,
                    success_outcome |-> DefaultOutcome,
                    success_result |-> <<>>,
                    failure_outcome |-> None,
                    failure_result |-> <<>>]>>,
     min_tier |-> 0,
     max_tier |-> 99,
     is_generic |-> TRUE,
     life_stage |-> 0,
     procedural_id |-> None,
     procedural_domain |-> None]

\* 4. the absolute fallback
NoEventFound(player_state) ==
    [title |-> <<"No Event Found!">>,
     description |-> <<"Error: No events found for player tier",
                       ToString(player_state.player_tier), "and life stage",
                       ToString(player_state.life_stage)>>,
     options |-> <<[text |-> <<"Continue">>,
                    requirements |-> <<>>,
                    risk_chance |-> 0,
                    success_outcome |-> DefaultOutcome,
                    success_result |-> <<>>,
                    failure_outcome |-> None,
                    failure_result |-> <<>>]>>,
     min_tier |-> 0,
     max_tier |-> 99,
     is_generic |-> TRUE,
     life_stage |-> 0,
     procedural_id |-> None,
     procedural_domain |-> None]

\* the fallback event carrying its template's title as provenance
filtered_event_tagged(player_state, template) ==
    [title |-> template.title,
     description |-> template.description,
     options |-> SelectSeq(template.options,
                           LAMBDA option : game_data_player_meets_requirements(
                                               player_state, option.requirements)),
     min_tier |-> 0,
     max_tier |-> 0,
     is_generic |-> FALSE,
     life_stage |-> template.life_stage,
     procedural_id |-> Some(template.title),
     procedural_domain |-> Some("Work")]

\* 4./5. the chosen template with only the options the player qualifies for
filtered_event(player_state, template) ==
    [title |-> template.title,
     description |-> template.description,
     options |-> SelectSeq(template.options,
                           LAMBDA option : game_data_player_meets_requirements(
                                               player_state, option.requirements)),
     min_tier |-> 0,
     max_tier |-> 0,
     is_generic |-> FALSE,
     life_stage |-> template.life_stage,
     procedural_id |-> None,
     procedural_domain |-> None]

\* the handcrafted fallback of generate_event: every run the draws allow,
\* with the step that produced the event, the index keys looked up and the
\* template chosen (a position in event_database, from 1)
fallback_event(player_state) ==
    LET key == <<player_state.life_stage, player_state.player_tier>>
        step1 == tier_specific_events(player_state)
        step2 == generic_events(player_state)
        step3 == past_stage_events(player_state, player_state.life_stage - 1)
        chosen(step, consulted, potential_events) ==
            {[step |-> step, consulted |-> consulted, template |-> Some(potential_events[i]),
              result |-> [kind |-> "Event",
                          value |-> filtered_event(
                              player_state,
                              player_state.event_database[potential_events[i]])]] :
                i \in DOMAIN potential_events}
    IN  IF step1 # <<>> THEN chosen(1, <<key>>, step1)
        ELSE IF step2 # <<>> THEN chosen(2, <<key, key>>, step2)
        ELSE IF step3 # <<>>
             THEN chosen(3, <<key, key>> \o past_stage_keys(player_state), step3)
        ELSE {[step |-> 4,
               consulted |-> <<key, key>> \o past_stage_keys(player_state),
               template |-> None,
               result |-> [kind |-> "Event", value |-> NoEventFound(player_state)]]}

\* generate_event preferring a tier-specific handcrafted event, when the
\* index has one, to the procedural event
generate_event_handcrafted_first(player_state, checks) ==
    UNION {
        IF procedural.result.kind = "Panic"
        THEN {[procedural |-> procedural, step |-> 0, consulted |-> <<>>,
               template |-> None, result |-> Panic]}
        ELSE IF procedural.result.kind = "Some"
                /\ tier_specific_events(player_state) = <<>>
        THEN {[procedural |-> procedural, step |-> 0, consulted |-> <<>>,
               template |-> None,
               result |-> [kind |-> "Event", value |-> procedural.result.value]]}
        ELSE {[procedural |-> procedural, step |-> f.step, consulted |-> f.consulted,
               template |-> f.template, result |-> f.result] :
                f \in fallback_event(player_state)}
        : procedural \in generate_procedural_event(player_state, checks)}

\* every run of generate_event the draws allow
generate_event(player_state, checks) ==
    UNION {
        IF procedural.result.kind = "Some"
        THEN {[procedural |-> procedural, step |-> 0, consulted |-> <<>>,
               template |-> None,
               result |-> [kind |-> "Event", value |-> procedural.result.value]]}
        ELSE IF procedural.result.kind = "Panic"
        THEN {[procedural |-> procedural, step |-> 0, consulted |-> <<>>,
               template |-> None, result |-> Panic]}
        ELSE {[procedural |-> procedural, step |-> f.step, consulted |-> f.consulted,
               template |-> f.template, result |-> f.result] :
                f \in fallback_event(player_state)}
        : procedural \in generate_procedural_event(player_state, checks)}

-----------------------------------------------------------------------------
(* app.rs                                                                  *)

TIER_D_MAX == 199

TIER_C_MAX == 399

TIER_B_MAX == 749

TIER_A_MAX == 999

AGE_STAGE_2 == 26

AGE_STAGE_3 == 41

AGE_STAGE_4 == 56

num_petals_per_tier == 8

is_review_petal(petal_index) ==
    petal_index = 0 \/ petal_index = 4 \/ petal_index = 8

\* the tier update_player_tier_from_scs assigns
tier_from_scs(scs) ==
    IF scs <= TIER_D_MAX THEN 0
    ELSE IF scs <= TIER_C_MAX THEN 1
    ELSE IF scs <= TIER_B_MAX THEN 2
    ELSE IF scs <= TIER_A_MAX THEN 3
    ELSE 4

\* the stage update_life_stage assigns
stage_from_age(age) ==
    IF age >= AGE_STAGE_4 THEN 4
    ELSE IF age >= AGE_STAGE_3 THEN 3
    ELSE IF age >= AGE_STAGE_2 THEN 2
    ELSE 1

\* the signed sum without saturation
add_signed_unsaturated(value, delta) == value + delta

\* u32::saturating_add_signed, below 2^31
saturating_add_signed(value, delta) == Max(value + delta, 0)

\* the LotusApp the generator is handed
PlayerState ==
    [player_tier |-> player_tier, life_stage |-> life_stage,
     career_level |-> career_level, guanxi_family |-> guanxi_family,
     guanxi_network |-> guanxi_network, guanxi_party |-> guanxi_party,
     recent_event_domains |-> recent_event_domains,
     encounter_history |-> encounter_history,
     situation_library |-> situation_library,
     event_database |-> event_database, event_index |-> event_index]

-----------------------------------------------------------------------------
(* The application state of a run that only applies a pure function.       *)

EmptyLibrary == [by_domain |-> [d \in EventDomain |-> <<>>]]

IdleApp ==
    /\ player_tier = 0
    /\ life_stage = 1
    /\ player_age = 0
    /\ player_petal = 0
    /\ social_credit_score = 0
    /\ finances = 0
    /\ career_level = 0
    /\ guanxi_family = 0
    /\ guanxi_network = 0
    /\ guanxi_party = 0
    /\ recent_event_domains = <<>>
    /\ encounter_history = {}
    /\ situation_library = EmptyLibrary
    /\ event_database = <<>>
    /\ event_index = <<>>
    /\ current_event = None
    /\ last_event_result = None
    /\ session_log = <<>>

-----------------------------------------------------------------------------
(* SpecCalc: the risk and stat calculators applied to sampled arguments.   *)

RiskBaseSamples == {0, 50, 100}

RiskModifierSamples == {-128, -10, 0, 127}

\* two recognized stat names and one that is not
RiskKeySamples == {"guanxi_family", "career_level", "finances"}

\* small requirements; the least gap whose product by 5 reads as a negative
\* i32; the least gap whose product by 5 leaves u32
RequiredSamples == {1, 20, (I32Max \div 5) + 1, U32MaxDiv5 + 1}

RiskPlayerSamples ==
    {[guanxi_family |-> gf, guanxi_network |-> 0, guanxi_party |-> 0,
      career_level |-> cl] : gf \in {0, 2, 30}, cl \in {0, 1}}

RiskCalls ==
    {[fn |-> "calculate_risk", base_risk |-> b, risk_modifier |-> m,
      requirements |-> r, player_state |-> ps] :
        b \in RiskBaseSamples, m \in RiskModifierSamples,
        r \in ReqMaps(RiskKeySamples, RequiredSamples),
        ps \in RiskPlayerSamples}

\* zero, the units, and the least magnitude whose product by 3 leaves i32
FailureFieldSamples ==
    {-((I32Max \div 3) + 1), -1, 0, 1, (I32Max \div 3) + 1}

FailureCalls ==
    {[fn |-> "calculate_failure_stats", success_stats |-> s] :
        s \in [StatFields -> FailureFieldSamples]}

StatsBaseSamples ==
    {[scs_change |-> a, finance_change |-> b, career_level_change |-> c,
      guanxi_family_change |-> d, guanxi_network_change |-> e,
      guanxi_party_change |-> g] :
        a \in {-10, 0, 10}, b \in {-7, 0, 5}, c \in {0, 1},
        d \in {0, 3}, e \in {0, -3}, g \in {0, 1}}

StatsCalls ==
    {[fn |-> "calculate_stats", base_stats |-> b, player_tier |-> t,
      severity |-> s, variance8 |-> v] :
        b \in StatsBaseSamples, t \in 0..4, s \in Severity, v \in {7, 8, 9}}

InitCalc ==
    /\ IdleApp
    /\ call \in RiskCalls \cup FailureCalls \cup StatsCalls
    /\ locals = NoLocals
    /\ ret = Pending
    /\ overflow_checks \in BOOLEAN

CallCalculateRisk ==
    /\ call.fn = "calculate_risk"
    /\ ret = Pending
    /\ \E order \in Orders(DOMAIN call.requirements) :
          /\ ret' = calculate_risk(call.base_risk, call.risk_modifier,
                                   call.requirements, call.player_state,
                                   order, overflow_checks)
          /\ locals' = [at |-> "calculate_risk", order |-> order]
    /\ UNCHANGED <<appVars, call, overflow_checks>>

CallCalculateStats ==
    /\ call.fn = "calculate_stats"
    /\ ret = Pending
    /\ ret' = [kind |-> "Value",
               value |-> calculate_stats(call.base_stats, call.player_tier,
                                         call.severity, call.variance8)]
    /\ locals' = [at |-> "calculate_stats"]
    /\ UNCHANGED <<appVars, call, overflow_checks>>

CallCalculateFailureStats ==
    /\ call.fn = "calculate_failure_stats"
    /\ ret = Pending
    /\ ret' = calculate_failure_stats(call.success_stats, overflow_checks)
    /\ locals' = [at |-> "calculate_failure_stats"]
    /\ UNCHANGED <<appVars, call, overflow_checks>>

NextCalc ==
    \/ CallCalculateRisk
    \/ CallCalculateStats
    \/ CallCalculateFailureStats

SpecCalc == InitCalc /\ [][NextCalc]_vars

\* C5: whenever calculate_risk returns, for a base_risk in 0..100 and a
\* risk_modifier in the i8 range, the value returned is in 0..95.
C5_RiskWithinCap ==
    (call.fn = "calculate_risk" /\ ret.kind = "Value"
        /\ call.base_risk \in 0..100 /\ call.risk_modifier \in -128..127)
    => ret.value \in 0..95

\* C5 witness: a call whose unclamped risk exceeds 100 returned the cap.
C5_Witness ==
    /\ call.fn = "calculate_risk"
    /\ ret.kind = "Value"
    /\ call.base_risk = 100
    /\ call.risk_modifier = 127
    /\ DOMAIN call.requirements # {}
    /\ ret.value = 95

\* C6: calculate_failure_stats flips the sign of every nonzero field of its
\* input and maps every zero field to zero.
C6_SignFlipped ==
    (call.fn = "calculate_failure_stats" /\ ret.kind = "Value")
    => \A f \in StatFields :
          /\ call.success_stats[f] > 0 => ret.value[f] < 0
          /\ call.success_stats[f] < 0 => ret.value[f] > 0
          /\ call.success_stats[f] = 0 => ret.value[f] = 0

\* the shortfall of one requirement entry: max(required - player_value, 0)
Shortfall(requirements, player_state, k) ==
    Max(requirements[k] - risk_player_value(player_state, k), 0)

\* clamp(base_risk + 5 x (sum of the shortfalls) + risk_modifier, 0, 95) over
\* the integers: a shortfall of 64 or more alone puts the sum above the cap
\* for every u8 base_risk and i8 risk_modifier
ClampedRiskSum(base_risk, risk_modifier, requirements, player_state, order) ==
    IF \E k \in DOMAIN requirements : Shortfall(requirements, player_state, k) >= 64
    THEN RiskCap
    ELSE clamp(base_risk
               + 5 * SumSeq([i \in DOMAIN order |->
                                Shortfall(requirements, player_state, order[i])])
               + risk_modifier, 0, RiskCap)

\* C21: the value calculate_risk returns is clamp(base_risk + 5 x (sum over
\* the requirement entries of max(required - player_value, 0)) +
\* risk_modifier, 0, 95).
C21_RiskIsClampedSum ==
    (call.fn = "calculate_risk" /\ ret.kind = "Value")
    => ret.value = ClampedRiskSum(call.base_risk, call.risk_modifier,
                                  call.requirements, call.player_state,
                                  locals.order)

\* twice the severity factor: 0.5 low, 1.0 medium, 2.0 high
TwiceSeverityFactor(severity) ==
    CASE severity = "Low" -> 1
      [] severity = "Medium" -> 2
      [] severity = "High" -> 4

\* r is the quotient n / d (d > 0) truncated toward zero
IsTruncatedQuotient(r, n, d) ==
    IF n >= 0 THEN r * d <= n /\ n < (r + 1) * d
    ELSE r * d >= n /\ n > (r - 1) * d

\* C20: every field of the result of calculate_stats is the base delta times
\* (tier + 1) x 1.5 x severity factor x variance, truncated toward zero, with
\* the one variance of the call; base scs_change 10 at tier 2, severity High
\* and variance 1.0 gives 90; a zero base delta gives zero.
C20_StatsScaledAndTruncated ==
    (call.fn = "calculate_stats" /\ ret.kind = "Value")
    => /\ \A f \in StatFields :
             /\ IsTruncatedQuotient(
                    ret.value[f],
                    call.base_stats[f] * (call.player_tier + 1) * 3
                        * TwiceSeverityFactor(call.severity) * call.variance8,
                    32)
             /\ call.base_stats[f] = 0 => ret.value[f] = 0
       /\ (/\ call.base_stats.scs_change = 10 /\ call.player_tier = 2
           /\ call.severity = "High" /\ call.variance8 = 8)
             => ret.value.scs_change = 90

\* C20 witness: the call of the example returned 90, with a negative delta
\* among the other fields.
C20_Witness ==
    /\ call.fn = "calculate_stats"
    /\ ret.kind = "Value"
    /\ call.base_stats.scs_change = 10
    /\ call.player_tier = 2
    /\ call.severity = "High"
    /\ call.variance8 = 8
    /\ ret.value.scs_change = 90
    /\ call.base_stats.guanxi_network_change = -3

-----------------------------------------------------------------------------
(* Sampled content.                                                        *)

PlainFragments ==
    [openings |-> <<"opening">>, conflicts |-> <<"conflict">>,
     stakes |-> <<"stakes">>]

\* a situation whose openings list is empty
NoOpeningFragments ==
    [openings |-> <<>>, conflicts |-> <<"conflict">>, stakes |-> <<"stakes">>]

Profile(scs, fin, career, family) ==
    [scs_change |-> scs, finance_change |-> fin, career_level_change |-> career,
     guanxi_family_change |-> family, guanxi_network_change |-> 0,
     guanxi_party_change |-> 0]

PlainChoice ==
    [archetype |-> "conform", text_fragments |-> <<"go along">>,
     base_stats |-> Profile(10, 0, 1, 0), risk_modifier |-> -10,
     requirements |-> <<>>]

CareerChoice ==
    [archetype |-> "resist", text_fragments |-> <<"push back">>,
     base_stats |-> Profile(-5, 3, 0, 0), risk_modifier |-> 20,
     requirements |-> [k \in {"career_level"} |-> 1]]

FamilyChoice ==
    [archetype |-> "manipulate", text_fragments |-> <<"call in a favour">>,
     base_stats |-> Profile(4, -2, 0, 1), risk_modifier |-> 127,
     requirements |-> [k \in {"guanxi_family", "career_level"} |->
                          IF k = "guanxi_family" THEN 2 ELSE 1]]

\* a requirement on a name that is no player stat
UnknownKeyChoice ==
    [archetype |-> "ignore", text_fragments |-> <<"look away">>,
     base_stats |-> Profile(0, 0, 0, 0), risk_modifier |-> 0,
     requirements |-> [k \in {"finances"} |-> 1]]

-----------------------------------------------------------------------------
(* SpecFilter: filter_situations applied to one situation of every tier    *)
(* range and life-stage range, for every tier and life stage of the player.*)

MaxTier == 4

MaxStage == 4

FilterSituations ==
    {<<[id |-> "s1", domain |-> "Work",
        tier_min |-> tmin, tier_max |-> tmax,
        life_stage_min |-> smin, life_stage_max |-> smax,
        severity |-> "Medium", base_risk |-> 30,
        fragments |-> PlainFragments, choices |-> <<PlainChoice>>]>> :
        tmin \in 0..MaxTier, tmax \in 0..MaxTier,
        smin \in 1..MaxStage, smax \in 1..MaxStage}

RecentDomainSamples ==
    {<<>>, <<"Work">>, <<"Family", "Work">>, <<"Party", "Family", "Work">>}

FilterCalls ==
    {[fn |-> "filter_situations", situations |-> ss, player_tier |-> t,
      life_stage |-> st, recent_domains |-> rd, encounter_history |-> h,
      allow_wildcard |-> w] :
        ss \in FilterSituations, t \in 0..MaxTier, st \in 1..MaxStage,
        rd \in RecentDomainSamples, h \in {{}, {"s1"}}, w \in BOOLEAN}

InitFilter ==
    /\ IdleApp
    /\ call \in FilterCalls
    /\ locals = NoLocals
    /\ ret = Pending
    /\ overflow_checks = FALSE

CallFilterSituations ==
    /\ call.fn = "filter_situations"
    /\ ret = Pending
    /\ ret' = [kind |-> "Value",
               value |-> filter_situations(call.situations, call.player_tier,
                                           call.life_stage, call.recent_domains,
                                           call.encounter_history,
                                           call.allow_wildcard)]
    /\ locals' = [at |-> "filter_situations"]
    /\ UNCHANGED <<appVars, call, overflow_checks>>

NextFilter == CallFilterSituations

SpecFilter == InitFilter /\ [][NextFilter]_vars

\* the inclusive ranges [a, b] and [c, d] share a value
RangesOverlap(a, b, c, d) == (a..b) \cap (c..d) # {}

\* the situation at position i passed filter_situations
Kept(i) == \E j \in DOMAIN ret.value : ret.value[j] = call.situations[i]

\* the situation passes the filters other than the tier filter
PassesNonTierFilters(s) ==
    /\ RangesOverlap(s.life_stage_min, s.life_stage_max,
                     Max(call.life_stage - 1, 1), call.life_stage)
    /\ s.life_stage_min <= s.life_stage_max
    /\ s.id \notin call.encounter_history
    /\ (call.allow_wildcard
        \/ \A i \in 1..Min(2, Len(call.recent_domains)) :
              call.recent_domains[i] # s.domain)

\* C10 as stated: a kept situation's tier range overlaps
\* [player_tier - 1, player_tier + 1] (lower end saturating at 0), and a
\* situation that passes the other filters is kept when its tier range does.
C10_TierOverlapAnyRange ==
    (call.fn = "filter_situations" /\ ret.kind = "Value")
    => \A i \in DOMAIN call.situations :
          LET s == call.situations[i]
              overlap == RangesOverlap(s.tier_min, s.tier_max,
                                       Max(call.player_tier - 1, 0),
                                       call.player_tier + 1)
          IN  /\ Kept(i) => overlap
              /\ (PassesNonTierFilters(s) /\ overlap) => Kept(i)

\* C10 amended: the same, for situations with tier_min <= tier_max.
C10_TierOverlap ==
    (call.fn = "filter_situations" /\ ret.kind = "Value")
    => \A i \in DOMAIN call.situations :
          LET s == call.situations[i]
              overlap == RangesOverlap(s.tier_min, s.tier_max,
                                       Max(call.player_tier - 1, 0),
                                       call.player_tier + 1)
          IN  s.tier_min <= s.tier_max
              => /\ Kept(i) => overlap
                 /\ (PassesNonTierFilters(s) /\ overlap) => Kept(i)

\* C10 witness: a situation lying exactly one tier above the player was kept.
C10_Witness ==
    /\ call.fn = "filter_situations"
    /\ ret.kind = "Value"
    /\ call.situations[1].tier_min = call.player_tier + 1
    /\ call.situations[1].tier_max = call.player_tier + 1
    /\ Kept(1)

\* the situation passes the filters other than the life-stage filter
PassesNonStageFilters(s) ==
    /\ tier_ok(s, call.player_tier)
    /\ s.id \notin call.encounter_history
    /\ (call.allow_wildcard
        \/ \A i \in 1..Min(2, Len(call.recent_domains)) :
              call.recent_domains[i] # s.domain)

\* C11 as stated: a kept situation's life-stage range overlaps
\* [max(life_stage - 1, 1), life_stage], and a situation that passes the
\* other filters is kept when its life-stage range does.
C11_StageOverlapAnyRange ==
    (call.fn = "filter_situations" /\ ret.kind = "Value")
    => \A i \in DOMAIN call.situations :
          LET s == call.situations[i]
              overlap == RangesOverlap(s.life_stage_min, s.life_stage_max,
                                       Max(call.life_stage - 1, 1),
                                       call.life_stage)
          IN  /\ Kept(i) => overlap
              /\ (PassesNonStageFilters(s) /\ overlap) => Kept(i)

\* C11 amended: the same, for situations with life_stage_min <=
\* life_stage_max; a kept situation of any range has life_stage_min <= the
\* player's stage and life_stage_max >= the stage before it.
C11_StageOverlap ==
    (call.fn = "filter_situations" /\ ret.kind = "Value")
    => \A i \in DOMAIN call.situations :
          LET s == call.situations[i]
              overlap == RangesOverlap(s.life_stage_min, s.life_stage_max,
                                       Max(call.life_stage - 1, 1),
                                       call.life_stage)
          IN  /\ s.life_stage_min <= s.life_stage_max
                 => /\ Kept(i) => overlap
                    /\ (PassesNonStageFilters(s) /\ overlap) => Kept(i)
              /\ Kept(i) => /\ s.life_stage_min <= call.life_stage
                            /\ s.life_stage_max >= call.life_stage - 1

\* C11 witness: a situation of the stage before the player's only was kept.
C11_Witness ==
    /\ call.fn = "filter_situations"
    /\ ret.kind = "Value"
    /\ call.life_stage >= 2
    /\ call.situations[1].life_stage_min = call.life_stage - 1
    /\ call.situations[1].life_stage_max = call.life_stage - 1
    /\ Kept(1)

-----------------------------------------------------------------------------
(* SpecGen: generate_procedural_event applied to sampled players and       *)
(* libraries.                                                              *)

\* a situation every sampled player is inside of, and one that players of
\* tier 0 and of life stage 4 are outside of
EligibilitySamples ==
    {[tier_min |-> 0, tier_max |-> 4, life_stage_min |-> 1, life_stage_max |-> 4,
      severity |-> "High", base_risk |-> 90],
     [tier_min |-> 1, tier_max |-> 3, life_stage_min |-> 1, life_stage_max |-> 2,
      severity |-> "Low", base_risk |-> 5]}

ChoiceListSamples ==
    {<<CareerChoice>>,
     <<PlainChoice, FamilyChoice>>,
     <<FamilyChoice, UnknownKeyChoice, CareerChoice>>}

Situation(id, domain, e, fragments, choices) ==
    [id |-> id, domain |-> domain,
     tier_min |-> e.tier_min, tier_max |-> e.tier_max,
     life_stage_min |-> e.life_stage_min, life_stage_max |-> e.life_stage_max,
     severity |-> e.severity, base_risk |-> e.base_risk,
     fragments |-> fragments, choices |-> choices]

\* the situations a library can hold under the id `id`
SituationSamples(id) ==
    {Situation(id, d, e, PlainFragments, c) :
        d \in {"Family", "Work"}, e \in EligibilitySamples,
        c \in ChoiceListSamples}
    \cup {Situation(id, "Work", e, NoOpeningFragments, <<PlainChoice>>) :
            e \in {x \in EligibilitySamples : x.tier_min = 0}}

\* the library holding the listed situations, each under its own domain
LibraryOf(situations) ==
    [by_domain |->
        [d \in EventDomain |-> SelectSeq(situations, LAMBDA s : s.domain = d)]]

GenLibraries ==
    {LibraryOf(<<a>>) : a \in SituationSamples("s1")}
    \cup {LibraryOf(<<a, b>>) :
            a \in SituationSamples("s1"), b \in SituationSamples("s2")}

GenTierSamples == {0, 2}

GenStageSamples == {2, 4}

InitGenPlayer ==
    /\ player_tier \in GenTierSamples
    /\ life_stage \in GenStageSamples
    /\ career_level \in {0, 1}
    /\ guanxi_family \in {0, 2}
    /\ guanxi_network = 0
    /\ guanxi_party = 0
    /\ recent_event_domains \in RecentDomainSamples
    /\ encounter_history \in {{}, {"s1"}}
    /\ player_age = 0
    /\ player_petal = 1
    /\ social_credit_score = 0
    /\ finances = 0
    /\ current_event = None
    /\ last_event_result = None
    /\ session_log = <<>>

InitGen ==
    /\ InitGenPlayer
    /\ situation_library \in GenLibraries
    /\ event_database = <<>>
    /\ event_index = <<>>
    /\ call = [fn |-> "generate_procedural_event"]
    /\ locals = NoLocals
    /\ ret = Pending
    /\ overflow_checks = FALSE

CallGenerateProceduralEvent ==
    /\ call.fn = "generate_procedural_event"
    /\ ret = Pending
    /\ \E run \in generate_procedural_event(PlayerState, overflow_checks) :
          /\ ret' = run.result
          /\ locals' = [at |-> "generate_procedural_event",
                        allow_wildcard |-> run.allow_wildcard,
                        candidates |-> run.candidates,
                        selected |-> run.selected]
    /\ UNCHANGED <<appVars, call, overflow_checks>>

NextGen == CallGenerateProceduralEvent

SpecGen == InitGen /\ [][NextGen]_vars

\* the player's value of a stat named by a requirement key
StatValue(key) ==
    CASE key = "guanxi_family" -> guanxi_family
      [] key = "guanxi_network" -> guanxi_network
      [] key = "guanxi_party" -> guanxi_party
      [] key = "career_level" -> career_level
      [] OTHER -> 0

\* C1: an event returned by generate_procedural_event has only options
\* whose every requirement is met by the player's current stats.
C1_OptionsMeetRequirements ==
    (call.fn = "generate_procedural_event" /\ ret.kind = "Some")
    => \A i \in DOMAIN ret.value.options :
          \A key \in DOMAIN ret.value.options[i].requirements :
              StatValue(key) >= ret.value.options[i].requirements[key]

\* C1 witness: an event was returned with an option that has requirements,
\* from a situation one of whose choices was filtered out.
C1_Witness ==
    /\ call.fn = "generate_procedural_event"
    /\ ret.kind = "Some"
    /\ \E i \in DOMAIN ret.value.options :
          DOMAIN ret.value.options[i].requirements # {}
    /\ Len(ret.value.options) < Len(locals.selected.value.choices)

\* C7: an event returned by generate_procedural_event never carries a
\* procedural_id that is in the player's encounter_history, wildcard or not.
C7_NotEncountered ==
    (call.fn = "generate_procedural_event" /\ ret.kind = "Some")
    => /\ ret.value.procedural_id.kind = "Some"
       /\ ret.value.procedural_id.value \notin encounter_history

\* C7 witness: a wildcard call returned an event while the library held an
\* encountered situation that passes the tier and life-stage filters.
C7_Witness ==
    /\ call.fn = "generate_procedural_event"
    /\ ret.kind = "Some"
    /\ locals.allow_wildcard
    /\ \E i \in DOMAIN all_situations(situation_library) :
          LET s == all_situations(situation_library)[i]
          IN  /\ s.id \in encounter_history
              /\ s.tier_min <= player_tier /\ player_tier <= s.tier_max
              /\ s.life_stage_min <= life_stage /\ life_stage <= s.life_stage_max

\* C8: on a call that drew no wildcard, the domain of the situation selected
\* is neither of the two domains at the front of the recent-domain history.
C8_NotRecentDomain ==
    (call.fn = "generate_procedural_event" /\ locals.at = "generate_procedural_event"
        /\ ~locals.allow_wildcard /\ locals.selected.kind = "Some")
    => \A i \in 1..Len(recent_event_domains) :
          i <= 2 => locals.selected.value.domain # recent_event_domains[i]

\* C8 witness: no wildcard, two recent domains, a situation selected, and a
\* situation of the second recent domain in the library that passes the tier,
\* life-stage and history filters.
C8_Witness ==
    /\ call.fn = "generate_procedural_event"
    /\ locals.at = "generate_procedural_event"
    /\ ~locals.allow_wildcard
    /\ locals.selected.kind = "Some"
    /\ ret.kind = "Some"
    /\ Len(recent_event_domains) >= 2
    /\ \E i \in DOMAIN all_situations(situation_library) :
          LET s == all_situations(situation_library)[i]
          IN  /\ s.domain = recent_event_domains[2]
              /\ s.id \notin encounter_history
              /\ s.tier_min <= player_tier /\ player_tier <= s.tier_max
              /\ s.life_stage_min <= life_stage /\ life_stage <= s.life_stage_max

\* the player meets every requirement of the choice, by the stat table
MeetsChoice(c) ==
    \A key \in DOMAIN c.requirements : StatValue(key) >= c.requirements[key]

\* the library of the example: one situation, eligible at tiers 1..3 and
\* stages 1..2, whose single choice requires career_level 1
ExampleLibrary ==
    LibraryOf(<<Situation("s1", "Work",
                          [tier_min |-> 1, tier_max |-> 3,
                           life_stage_min |-> 1, life_stage_max |-> 2,
                           severity |-> "Low", base_risk |-> 5],
                          PlainFragments, <<CareerChoice>>)>>)

\* C12: a call of generate_procedural_event that returns returns None if and
\* only if the candidate pool is empty or the situation drawn has no choice
\* the player meets; a non-empty pool always yields a drawn situation; and
\* the example (tier 2, stage 2, all stats zero) returns None.
C12_NoneIffNoCandidateOrChoice ==
    (call.fn = "generate_procedural_event"
        /\ locals.at = "generate_procedural_event")
    => /\ locals.candidates # <<>> => locals.selected.kind = "Some"
       /\ ret.kind # "Panic"
            => (ret.kind = "None"
                  <=> \/ locals.candidates = <<>>
                      \/ /\ locals.selected.kind = "Some"
                         /\ \A i \in DOMAIN locals.selected.value.choices :
                               ~MeetsChoice(locals.selected.value.choices[i]))
       /\ (/\ situation_library = ExampleLibrary
           /\ player_tier = 2 /\ life_stage = 2
           /\ career_level = 0 /\ guanxi_family = 0) => ret.kind = "None"

\* C12 witness: the example, with the situation in the pool and drawn.
C12_Witness ==
    /\ call.fn = "generate_procedural_event"
    /\ locals.at = "generate_procedural_event"
    /\ situation_library = ExampleLibrary
    /\ player_tier = 2 /\ life_stage = 2
    /\ career_level = 0 /\ guanxi_family = 0
    /\ locals.selected.kind = "Some"
    /\ ret.kind = "None"

RecognizedKeys == {"guanxi_family", "guanxi_network", "guanxi_party", "career_level"}

\* the player meets every requirement of the choice on a recognized key
MeetsRecognized(c) ==
    \A key \in DOMAIN c.requirements \cap RecognizedKeys :
        StatValue(key) >= c.requirements[key]

\* C13: a requirement on an unrecognized key never filters a choice out: when
\* a situation is drawn, every choice of it whose requirements on recognized
\* keys the player meets is among the options of the event returned.
C13_UnknownKeyNeverBlocks ==
    (call.fn = "generate_procedural_event"
        /\ locals.at = "generate_procedural_event"
        /\ locals.selected.kind = "Some" /\ ret.kind # "Panic")
    => \A i \in DOMAIN locals.selected.value.choices :
          LET c == locals.selected.value.choices[i]
          IN  MeetsRecognized(c)
              => /\ ret.kind = "Some"
                 /\ \E j \in DOMAIN ret.value.options :
                       ret.value.options[j].requirements = c.requirements

\* option is built from choice: its text is one of the choice's fragments,
\* its result texts name the choice's archetype, its requirements are the
\* choice's, and its failure outcome is calculate_failure_stats of its own
\* success outcome
BuiltFrom(option, choice) ==
    /\ \E k \in DOMAIN choice.text_fragments : option.text = choice.text_fragments[k]
    /\ option.success_result[2] = choice.archetype
    /\ option.failure_result[2] = choice.archetype
    /\ option.requirements = choice.requirements
    /\ LET failure == calculate_failure_stats(option.success_outcome, overflow_checks)
       IN  failure.kind = "Value" /\ option.failure_outcome = Some(failure.value)

\* C24: the options of a procedural event are, one for one and in the
\* authored order, the selected situation's choices whose requirements the
\* player meets; each option carries its choice's requirements and a failure
\* outcome equal to calculate_failure_stats of its own success outcome.
C24_OptionsMatchSurvivingChoices ==
    (call.fn = "generate_procedural_event" /\ ret.kind = "Some")
    => LET surviving == SelectSeq(locals.selected.value.choices, MeetsChoice)
       IN  /\ Len(ret.value.options) = Len(surviving)
           /\ \A i \in DOMAIN surviving :
                 BuiltFrom(ret.value.options[i], surviving[i])

\* C24 witness: an event with two options, built from the first and the last
\* of three authored choices, the middle one filtered out.
C24_Witness ==
    /\ call.fn = "generate_procedural_event"
    /\ ret.kind = "Some"
    /\ Len(locals.selected.value.choices) = 3
    /\ Len(ret.value.options) = 2
    /\ ret.value.options[1].requirements = locals.selected.value.choices[1].requirements
    /\ ret.value.options[2].requirements = locals.selected.value.choices[3].requirements
    /\ ret.value.options[2].failure_outcome.value.finance_change # 0

\* C28: in an event returned by generate_procedural_event the risk_chance of
\* every option is clamp(base_risk of the situation + risk_modifier of the
\* option's choice, 0, 95): the requirement gaps add nothing.
C28_RiskWithoutGapTerm ==
    (call.fn = "generate_procedural_event" /\ ret.kind = "Some")
    => LET surviving == SelectSeq(locals.selected.value.choices, MeetsChoice)
       IN  \A i \in DOMAIN ret.value.options :
              /\ i \in DOMAIN surviving
              /\ ret.value.options[i].risk_chance =
                     clamp(locals.selected.value.base_risk
                           + surviving[i].risk_modifier, 0, RiskCap)

\* C28 witness: an option with requirements, all met, whose risk is strictly
\* inside the range, next to one whose risk is clamped.
C28_Witness ==
    /\ call.fn = "generate_procedural_event"
    /\ ret.kind = "Some"
    /\ \E i, j \in DOMAIN ret.value.options :
          /\ DOMAIN ret.value.options[i].requirements # {}
          /\ ret.value.options[i].risk_chance = 25
          /\ ret.value.options[j].risk_chance = RiskCap

-----------------------------------------------------------------------------
(* SpecLoad: the library is loaded from sampled content files and then     *)
(* generate_procedural_event is called on it.                              *)

\* a situation every tier and life stage is inside of
WideEligibility ==
    [tier_min |-> 0, tier_max |-> 4, life_stage_min |-> 1, life_stage_max |-> 4,
     severity |-> "High", base_risk |-> 90]

\* a choice whose text_fragments list is empty
NoTextChoice ==
    [archetype |-> "ignore", text_fragments |-> <<>>,
     base_stats |-> Profile(0, 0, 0, 0), risk_modifier |-> 0,
     requirements |-> <<>>]

FragmentSamples ==
    {PlainFragments, NoOpeningFragments,
     [PlainFragments EXCEPT !.conflicts = <<>>],
     [PlainFragments EXCEPT !.stakes = <<>>]}

WorkFileSamples ==
    {Unparsable, Parsed(<<>>)}
    \cup {Parsed(<<Situation("s1", "Work", WideEligibility, f, <<PlainChoice>>)>>) :
            f \in FragmentSamples}
    \cup {Parsed(<<Situation("s1", "Work", WideEligibility, PlainFragments,
                             <<CareerChoice, NoTextChoice>>)>>)}

FamilyFileSamples ==
    {Unparsable, Parsed(<<>>),
     Parsed(<<Situation("s2", "Family", WideEligibility, PlainFragments,
                        <<PlainChoice>>)>>)}

ConfigSamples ==
    {[work_events |-> w, family_events |-> f, public_events |-> Parsed(<<>>),
      party_events |-> Parsed(<<>>), variables |-> Parsed(<<>>)] :
        w \in WorkFileSamples, f \in FamilyFileSamples}

InitLoad ==
    /\ IdleApp
    /\ call \in {[fn |-> "from_embedded_configs", configs |-> c] :
                    c \in ConfigSamples}
    /\ locals = NoLocals
    /\ ret = Pending
    /\ overflow_checks \in BOOLEAN

LoadLibrary ==
    /\ call.fn = "from_embedded_configs"
    /\ ret = Pending
    /\ LET loaded == from_embedded_configs(call.configs)
       IN  /\ ret' = loaded
           /\ situation_library' =
                  IF loaded.kind = "Ok" THEN loaded.value ELSE situation_library
    /\ locals' = [at |-> "from_embedded_configs"]
    /\ UNCHANGED <<player_tier, life_stage, player_age, player_petal,
                   social_credit_score, finances, career_level, guanxi_family,
                   guanxi_network, guanxi_party, recent_event_domains,
                   encounter_history, event_database, event_index,
                   current_event, last_event_result, session_log, call,
                   overflow_checks>>

GenerateFromLoaded ==
    /\ call.fn = "from_embedded_configs"
    /\ locals.at = "from_embedded_configs"
    /\ ret.kind = "Ok"
    /\ \E run \in generate_procedural_event(PlayerState, overflow_checks) :
          /\ ret' = run.result
          /\ locals' = [at |-> "generate_procedural_event",
                        allow_wildcard |-> run.allow_wildcard,
                        candidates |-> run.candidates,
                        selected |-> run.selected]
    /\ call' = [fn |-> "generate_procedural_event", configs |-> call.configs]
    /\ UNCHANGED <<appVars, overflow_checks>>

NextLoad == LoadLibrary \/ GenerateFromLoaded

SpecLoad == InitLoad /\ [][NextLoad]_vars

\* a situation of the content files has an empty openings, conflicts or
\* stakes list, or a choice with an empty text_fragments list
HasEmptyFragmentList(configs) ==
    \E f \in DOMAIN configs :
        /\ configs[f].kind = "Parsed"
        /\ \E i \in DOMAIN configs[f].situations :
              LET s == configs[f].situations[i]
              IN  \/ s.fragments.openings = <<>>
                  \/ s.fragments.conflicts = <<>>
                  \/ s.fragments.stakes = <<>>
                  \/ \E j \in DOMAIN s.choices : s.choices[j].text_fragments = <<>>

\* C18: content with an empty fragment list is rejected when the library is
\* loaded, and no generation call on a loaded library panics.
C18_EmptyFragmentsRejected ==
    /\ (locals.at = "from_embedded_configs" /\ HasEmptyFragmentList(call.configs))
          => ret.kind = "Err"
    /\ locals.at = "generate_procedural_event" => ret.kind # "Panic"

-----------------------------------------------------------------------------
(* SpecDraws: generate_procedural_event called twice on equal player state *)
(* and equal library content with the same random draws.  The library of   *)
(* each call is a HashMap of its own, with its own iteration order.        *)

\* the draws of a call: the wildcard flag and the weighted draw in eighths
DrawSamples ==
    {[allow_wildcard |-> w, x8 |-> x] : w \in BOOLEAN, x \in {0, 3, 4, 7}}

\* the orders in which a HashMap keyed by the four domains can be walked
DomainOrders == Orders(EventDomain)

DrawLibraries ==
    {LibraryOf(<<a>>) : a \in SituationSamples("s1")}
    \cup {LibraryOf(<<Situation("s1", "Work", e, PlainFragments, <<PlainChoice>>),
                      Situation("s2", d, WideEligibility, PlainFragments,
                                <<PlainChoice>>)>>) :
            e \in EligibilitySamples, d \in {"Work", "Family"}}

InitDraws ==
    /\ InitGenPlayer
    /\ situation_library \in DrawLibraries
    /\ event_database = <<>>
    /\ event_index = <<>>
    /\ call \in {[fn |-> "generate_procedural_event", draws |-> d] :
                    d \in DrawSamples}
    /\ locals = NoLocals
    /\ ret = Pending
    /\ overflow_checks = FALSE

FirstCall ==
    /\ call.fn = "generate_procedural_event"
    /\ locals = NoLocals
    /\ \E order \in DomainOrders :
          LET selected == select_situation(PlayerState, order,
                                           call.draws.allow_wildcard,
                                           call.draws.x8)
          IN  /\ locals' = [at |-> "first call", first |-> selected]
              /\ ret' = selected
    /\ UNCHANGED <<appVars, call, overflow_checks>>

SecondCall ==
    /\ call.fn = "generate_procedural_event"
    /\ locals.at = "first call"
    /\ \E order \in DomainOrders :
          LET selected == select_situation(PlayerState, order,
                                           call.draws.allow_wildcard,
                                           call.draws.x8)
          IN  /\ locals' = [at |-> "second call", first |-> locals.first,
                            second |-> selected]
              /\ ret' = selected
    /\ UNCHANGED <<appVars, call, overflow_checks>>

NextDraws == FirstCall \/ SecondCall

SpecDraws == InitDraws /\ [][NextDraws]_vars

\* C19: two calls with equal player state, equal library content and the
\* same random draws select the same situation.
C19_SameDrawsSameResult ==
    locals.at = "second call" => locals.first = locals.second

-----------------------------------------------------------------------------
(* SpecRepeat: generate_procedural_event called again and again on the     *)
(* same player state (the function takes the player state by shared        *)
(* reference and changes nothing of it).  Every call draws its own         *)
(* wildcard flag; locals keeps the flag, the candidates and the selection  *)
(* of the call before.                                                     *)

RepeatLibraries ==
    {LibraryOf(<<Situation("s1", "Work", e, PlainFragments, <<PlainChoice>>),
                 Situation("s2", d, WideEligibility, PlainFragments,
                           <<PlainChoice, FamilyChoice>>)>>) :
        e \in EligibilitySamples, d \in {"Work", "Family"}}

InitRepeat ==
    /\ InitGenPlayer
    /\ situation_library \in RepeatLibraries
    /\ event_database = <<>>
    /\ event_index = <<>>
    /\ call = [fn |-> "generate_procedural_event"]
    /\ locals = NoLocals
    /\ ret = Pending
    /\ overflow_checks = FALSE

CallGenerateAgain ==
    /\ call.fn = "generate_procedural_event"
    /\ \E run \in generate_procedural_event(PlayerState, overflow_checks) :
          /\ ret' = run.result
          /\ locals' = [at |-> "generate_procedural_event",
                        allow_wildcard |-> run.allow_wildcard,
                        candidates |-> run.candidates,
                        selected |-> run.selected,
                        previous |->
                            IF locals.at = "none" THEN None
                            ELSE Some([allow_wildcard |-> locals.allow_wildcard,
                                       candidates |-> locals.candidates,
                                       selected |-> locals.selected])]
    /\ UNCHANGED <<appVars, call, overflow_checks>>

NextRepeat == CallGenerateAgain

SpecRepeat == InitRepeat /\ [][NextRepeat]_vars

\* s is within one tier and one life stage of the player and has not been
\* encountered
PassesToleranceAndHistory(s) ==
    /\ s.tier_min <= player_tier + 1
    /\ s.tier_max >= player_tier - 1
    /\ s.life_stage_min <= life_stage
    /\ s.life_stage_max >= Max(life_stage - 1, 1)
    /\ s.id \notin encounter_history

InRecentDomain(s) ==
    \E i \in 1..Len(recent_event_domains) : i <= 2 /\ s.domain = recent_event_domains[i]

\* C22: the candidates of every call, wildcard or not, pass the tier
\* tolerance, life-stage tolerance and encountered-id filters; on a wildcard
\* call every situation of the library that passes these three is a
\* candidate, whatever its domain; the candidates
\* of a non-wildcard call are those of a wildcard call on the same state
\* without the situations of the last two domains; and this holds between a
\* call and the call before it in either order, so the flag of a call has no
\* effect on the next one.
C22_WildcardOnlyDomainFilter ==
    locals.at = "generate_procedural_event"
    => /\ \A i \in DOMAIN locals.candidates :
             PassesToleranceAndHistory(locals.candidates[i])
       /\ locals.allow_wildcard
             => \A d \in EventDomain :
                   \A j \in DOMAIN situation_library.by_domain[d] :
                       LET s == situation_library.by_domain[d][j]
                       IN  PassesToleranceAndHistory(s)
                              => \E i \in DOMAIN locals.candidates :
                                    locals.candidates[i] = s
       /\ ~locals.allow_wildcard
             => \A i \in DOMAIN locals.candidates :
                   ~InRecentDomain(locals.candidates[i])
       /\ locals.previous.kind = "Some"
             => LET now == locals.candidates
                    before == locals.previous.value.candidates
                    NotRecent(s) == ~InRecentDomain(s)
                IN  /\ (locals.previous.value.allow_wildcard /\ ~locals.allow_wildcard)
                          => now = SelectSeq(before, NotRecent)
                    /\ (~locals.previous.value.allow_wildcard /\ locals.allow_wildcard)
                          => before = SelectSeq(now, NotRecent)
                    /\ locals.previous.value.allow_wildcard = locals.allow_wildcard
                          => now = before

\* C22 witness: a wildcard call selected a situation of a recent domain, and
\* the next call, on the same state, drew no wildcard and has that situation
\* not among its candidates, while it kept another one.
C22_Witness ==
    /\ locals.at = "generate_procedural_event"
    /\ locals.previous.kind = "Some"
    /\ locals.previous.value.allow_wildcard
    /\ locals.previous.value.selected.kind = "Some"
    /\ InRecentDomain(locals.previous.value.selected.value)
    /\ ~locals.allow_wildcard
    /\ locals.selected.kind = "Some"
    /\ ret.kind = "Some"
    /\ Len(locals.candidates) < Len(locals.previous.value.candidates)

-----------------------------------------------------------------------------
(* SpecWeight: generate_procedural_event applied to players of every tier  *)
(* and life stage and to libraries of two situations, with the weights the *)
(* call gave its candidates kept in locals.                                *)

\* tier and life-stage ranges a player can be inside of, next to, or away from
WeightEligibility ==
    {[tier_min |-> t[1], tier_max |-> t[2],
      life_stage_min |-> st[1], life_stage_max |-> st[2],
      severity |-> "Medium", base_risk |-> 30] :
        t \in {<<0, 4>>, <<1, 2>>, <<3, 3>>},
        st \in {<<1, 4>>, <<1, 2>>, <<3, 3>>}}

WeightLibraries ==
    {LibraryOf(<<Situation("s1", "Work", a, PlainFragments, <<PlainChoice>>),
                 Situation("s2", "Family", b, PlainFragments, <<PlainChoice>>)>>) :
        a \in WeightEligibility,
        b \in {e \in WeightEligibility : e.tier_min = 1 \/ e.life_stage_min = 1}}

InitWeight ==
    /\ player_tier \in 0..MaxTier
    /\ life_stage \in 1..MaxStage
    /\ career_level = 0
    /\ guanxi_family = 0
    /\ guanxi_network = 0
    /\ guanxi_party = 0
    /\ recent_event_domains = <<>>
    /\ encounter_history = {}
    /\ player_age = 0
    /\ player_petal = 1
    /\ social_credit_score = 0
    /\ finances = 0
    /\ current_event = None
    /\ last_event_result = None
    /\ session_log = <<>>
    /\ situation_library \in WeightLibraries
    /\ event_database = <<>>
    /\ event_index = <<>>
    /\ call = [fn |-> "generate_procedural_event"]
    /\ locals = NoLocals
    /\ ret = Pending
    /\ overflow_checks = FALSE

CallGenerateWeighted ==
    /\ call.fn = "generate_procedural_event"
    /\ ret = Pending
    /\ \E run \in generate_procedural_event(PlayerState, overflow_checks) :
          /\ ret' = run.result
          /\ locals' = [at |-> "generate_procedural_event",
                        allow_wildcard |-> run.allow_wildcard,
                        candidates |-> run.candidates,
                        weights |-> [i \in DOMAIN run.candidates |->
                                        selection_weight(run.candidates[i],
                                                         PlayerState)],
                        selected |-> run.selected]
    /\ UNCHANGED <<appVars, call, overflow_checks>>

NextWeight == CallGenerateWeighted

SpecWeight == InitWeight /\ [][NextWeight]_vars

\* the player's tier lies inside [tier_min, tier_max]
TierInside(s) == player_tier \in s.tier_min..s.tier_max

\* the player's life stage lies inside [life_stage_min, life_stage_max]
StageInside(s) == life_stage \in s.life_stage_min..s.life_stage_max

\* C23: the weight of every candidate is 1, doubled once if the player's tier
\* is inside the situation's tier range and once more if the life stage is
\* inside its life-stage range: one of 1, 2, 4 and never zero; a candidate
\* matching both has a strictly greater weight than one that misses either.
C23_WeightsDoubledPerMatch ==
    locals.at = "generate_procedural_event"
    => /\ \A i \in DOMAIN locals.candidates :
             LET s == locals.candidates[i]
                 w == locals.weights[i]
             IN  /\ w = (IF TierInside(s) THEN 2 ELSE 1)
                          * (IF StageInside(s) THEN 2 ELSE 1)
                 /\ w \in {1, 2, 4}
                 /\ w > 0
       /\ \A i, j \in DOMAIN locals.candidates :
             LET a == locals.candidates[i]
                 b == locals.candidates[j]
             IN  (/\ TierInside(a) /\ StageInside(a)
                  /\ ~(TierInside(b) /\ StageInside(b)))
                     => locals.weights[i] > locals.weights[j]

\* C23 witness: a candidate that misses both the tier and the life stage was
\* drawn, with weight 1, from a pool that held a candidate of weight 4.
C23_Witness ==
    /\ locals.at = "generate_procedural_event"
    /\ ret.kind = "Some"
    /\ locals.selected.kind = "Some"
    /\ ~TierInside(locals.selected.value)
    /\ ~StageInside(locals.selected.value)
    /\ \E i, j \in DOMAIN locals.candidates :
          /\ locals.candidates[i] = locals.selected.value
          /\ locals.weights[i] = 1
          /\ locals.weights[j] = 4

-----------------------------------------------------------------------------
(* SpecText: substitute_variables applied to sampled texts, variable       *)
(* libraries and player tiers.                                             *)

TextSamples ==
    {<<"nothing", "to", "replace">>,
     <<"your", "{colleague_descriptor}", "colleague", "asks">>,
     <<"{colleague_descriptor}", "and", "{colleague_descriptor}", "{excuse}">>,
     <<"at", "{work_time}", "{excuse}">>,
     <<"an", "{unknown_placeholder}">>}

\* a list that is absent, empty, or has two words
ListSamples(a, b) == {None, Some(<<>>), Some(<<a, b>>)}

\* the map with the entries that are present
PresentEntries(entries) ==
    [k \in {x \in DOMAIN entries : entries[x].kind = "Some"} |-> entries[k].value]

VariableSamples ==
    {[colleague_descriptors |->
          PresentEntries([k \in {"2", "3"} |-> IF k = "2" THEN two ELSE three]),
      lists |->
          PresentEntries([k \in {"excuse_library", "work_time"} |->
                             IF k = "excuse_library" THEN excuse ELSE time])] :
        two \in ListSamples("steady", "quiet"),
        three \in ListSamples("ambitious", "guarded"),
        excuse \in {Some(<<>>), Some(<<"traffic", "illness">>)},
        time \in ListSamples("noon", "midnight")}

TextCalls ==
    {[fn |-> "substitute_variables", text |-> t, variables |-> v,
      player_tier |-> tier] :
        t \in TextSamples, v \in VariableSamples, tier \in {1, 2, 3}}

InitText ==
    /\ IdleApp
    /\ call \in TextCalls
    /\ locals = NoLocals
    /\ ret = Pending
    /\ overflow_checks = FALSE

CallSubstituteVariables ==
    /\ call.fn = "substitute_variables"
    /\ ret = Pending
    /\ ret' \in substitute_variables(call.text, call.variables, call.player_tier)
    /\ locals' = [at |-> "substitute_variables"]
    /\ UNCHANGED <<appVars, call, overflow_checks>>

NextText == CallSubstituteVariables

SpecText == InitText /\ [][NextText]_vars

\* C27: substitute_variables never panics, and when neither the list of the
\* player's tier nor the list of tier "2" is available the placeholder
\* {colleague_descriptor} is left in the text it returns.
C27_SubstitutionNeverPanics ==
    (call.fn = "substitute_variables" /\ ret # Pending)
    => /\ ret.kind = "Value"
       /\ (/\ text_contains(call.text, "{colleague_descriptor}")
           /\ ToString(call.player_tier) \notin DOMAIN call.variables.colleague_descriptors
           /\ "2" \notin DOMAIN call.variables.colleague_descriptors)
             => text_contains(ret.value, "{colleague_descriptor}")

-----------------------------------------------------------------------------
(* Sampled handcrafted content: events.json and the index built from it.   *)

HandcraftedFree ==
    [text |-> <<"Keep walking">>, requirements |-> <<>>, risk_chance |-> 0,
     success_outcome |-> Profile(5, 0, 0, 1), success_result |-> <<"Nothing happens.">>,
     failure_outcome |-> None, failure_result |-> <<>>]

HandcraftedFamily ==
    [text |-> <<"Ask the family">>,
     requirements |-> [k \in {"guanxi_family"} |-> 2], risk_chance |-> 40,
     success_outcome |-> Profile(0, 10, 0, 0), success_result |-> <<"They help.">>,
     failure_outcome |-> Some(Profile(-20, 0, 0, -1)),
     failure_result |-> <<"They refuse.">>]

Handcrafted(title, stage, generic, options) ==
    [title |-> <<title>>, description |-> <<"handcrafted">>, options |-> options,
     min_tier |-> IF generic THEN 0 ELSE 2, max_tier |-> IF generic THEN 4 ELSE 2,
     is_generic |-> generic, life_stage |-> stage,
     procedural_id |-> None, procedural_domain |-> None]

\* positions 1..4 of event_database
HandcraftedEvents ==
    <<Handcrafted("promotion", 2, FALSE, <<HandcraftedFree, HandcraftedFamily>>),
      Handcrafted("wedding", 2, TRUE, <<HandcraftedFamily>>),
      Handcrafted("new year", 1, TRUE, <<HandcraftedFamily>>),
      Handcrafted("street", 1, TRUE, <<HandcraftedFree>>)>>

IndexEntry(tier_specific, generic) ==
    Some([tier_specific |-> tier_specific, generic |-> generic])

\* the index with the given entries for (2, 2) and (1, 2), and the generic
\* stage-1 event under tier 1; every event is listed under its own life stage
IndexOf(stage2, stage1) ==
    LET entry(k) == IF k = <<2, 2>> THEN stage2
                    ELSE IF k = <<1, 2>> THEN stage1
                    ELSE IndexEntry(<<>>, <<4>>)
        keys == {k \in {<<2, 2>>, <<1, 2>>, <<1, 1>>} : entry(k).kind = "Some"}
    IN  [k \in keys |-> entry(k).value]

IndexSamples ==
    {IndexOf(a, b) :
        a \in {None, IndexEntry(<<1>>, <<2>>), IndexEntry(<<>>, <<2>>),
               IndexEntry(<<>>, <<>>)},
        b \in {None, IndexEntry(<<>>, <<3, 4>>), IndexEntry(<<>>, <<3>>)}}

-----------------------------------------------------------------------------
(* SpecEvent: generate_event applied to sampled players, libraries and     *)
(* handcrafted indexes.                                                    *)

EventLibraries ==
    {EmptyLibrary,
     LibraryOf(<<Situation("s1", "Work", WideEligibility, PlainFragments,
                           <<CareerChoice>>)>>),
     LibraryOf(<<Situation("s1", "Work", WideEligibility, NoOpeningFragments,
                           <<CareerChoice>>)>>)}

InitEvent ==
    /\ player_tier \in {1, 2}
    /\ life_stage \in 1..3
    /\ career_level \in {0, 1}
    /\ guanxi_family \in {0, 2}
    /\ guanxi_network = 0
    /\ guanxi_party = 0
    /\ recent_event_domains = <<>>
    /\ encounter_history = {}
    /\ player_age = 0
    /\ player_petal = 1
    /\ social_credit_score = 0
    /\ finances = 0
    /\ current_event = None
    /\ last_event_result = None
    /\ session_log = <<>>
    /\ situation_library \in EventLibraries
    /\ event_database = HandcraftedEvents
    /\ event_index \in IndexSamples
    /\ call = [fn |-> "generate_event"]
    /\ locals = NoLocals
    /\ ret = Pending
    /\ overflow_checks = FALSE

CallGenerateEvent ==
    /\ call.fn = "generate_event"
    /\ ret = Pending
    /\ \E run \in generate_event(PlayerState, overflow_checks) :
          /\ ret' = run.result
          /\ locals' = [at |-> "generate_event",
                        procedural |-> run.procedural.result,
                        step |-> run.step,
                        consulted |-> run.consulted,
                        template |-> run.template]
    /\ UNCHANGED <<appVars, call, overflow_checks>>

NextEvent == CallGenerateEvent

SpecEvent == InitEvent /\ [][NextEvent]_vars

\* C2: generate_event never returns None; when procedural generation
\* returned Some(e) it returns exactly e without looking the index up; the
\* index is looked up only when procedural generation returned None, and
\* then an event is returned.
C2_ProceduralFirst ==
    (call.fn = "generate_event" /\ locals.at = "generate_event")
    => /\ ret.kind # "None"
       /\ locals.procedural.kind = "Some"
            => /\ ret = [kind |-> "Event", value |-> locals.procedural.value]
               /\ locals.consulted = <<>>
       /\ locals.consulted # <<>> => locals.procedural.kind = "None"
       /\ locals.procedural.kind = "None" => ret.kind = "Event"

\* C2 witness: procedural generation returned an event while the index held
\* a tier-specific event for the player's stage and tier.
C2_Witness ==
    /\ call.fn = "generate_event"
    /\ locals.at = "generate_event"
    /\ locals.procedural.kind = "Some"
    /\ ret.kind = "Event"
    /\ <<life_stage, player_tier>> \in DOMAIN event_index
    /\ event_index[<<life_stage, player_tier>>].tier_specific # <<>>

\* C3: every event generate_event returns has a non-empty list of options.
C3_OptionsNonEmpty ==
    (call.fn = "generate_event" /\ ret.kind = "Event")
    => ret.value.options # <<>>

\* the positions in event_database the index lists as generic under the
\* player's tier and one of the given stages
GenericAt(stages) ==
    UNION {{event_index[k].generic[i] : i \in 1..Len(event_index[k].generic)} :
            k \in {x \in DOMAIN event_index :
                      x[1] \in stages /\ x[2] = player_tier}}

\* the index has no event, tier-specific or generic, for the player's
\* current life stage and tier or a later stage
NothingAtCurrentStage ==
    \A k \in DOMAIN event_index :
        (k[2] = player_tier /\ k[1] >= life_stage)
        => event_index[k].tier_specific = <<>> /\ event_index[k].generic = <<>>

\* C14: when procedural generation returned None and the index holds, for
\* the player's tier, only generic events of strictly earlier life stages,
\* the event returned is one of exactly those: its template is listed as
\* generic under (s, player_tier) for a stage s in 1..life_stage - 1, it
\* belongs to that stage, and it is not the placeholder.
C14_PastStageGeneric ==
    (call.fn = "generate_event" /\ locals.at = "generate_event"
        /\ locals.procedural.kind = "None"
        /\ NothingAtCurrentStage
        /\ GenericAt(1..(life_stage - 1)) # {})
    => /\ ret.kind = "Event"
       /\ locals.template.kind = "Some"
       /\ locals.template.value \in GenericAt(1..(life_stage - 1))
       /\ event_database[locals.template.value].life_stage \in 1..(life_stage - 1)
       /\ ret.value.title = event_database[locals.template.value].title
       /\ ret.value.life_stage = event_database[locals.template.value].life_stage
       /\ ret.value.title # <<"No Event Found!">>

\* C14 witness: a player of life stage 3 got an event of an earlier stage
\* while a generic event was listed under another tier only.
C14_Witness ==
    /\ call.fn = "generate_event"
    /\ locals.at = "generate_event"
    /\ locals.procedural.kind = "None"
    /\ NothingAtCurrentStage
    /\ life_stage = 3
    /\ player_tier = 2
    /\ ret.kind = "Event"
    /\ locals.template.kind = "Some"
    /\ 4 \notin GenericAt(1..2)
    /\ <<1, 1>> \in DOMAIN event_index

\* the positions in event_database the index lists as tier-specific under
\* the player's current life stage and tier
TierSpecificAtCurrent ==
    IF <<life_stage, player_tier>> \in DOMAIN event_index
    THEN {event_index[<<life_stage, player_tier>>].tier_specific[i] :
            i \in 1..Len(event_index[<<life_stage, player_tier>>].tier_specific)}
    ELSE {}

\* C15: in the fallback, when the entry for the current (life_stage, tier)
\* lists tier-specific events the event returned is one of them; a generic
\* event of the current (life_stage, tier) is returned only when the
\* tier-specific list is empty or absent.
C15_TierSpecificFirst ==
    (call.fn = "generate_event" /\ locals.at = "generate_event"
        /\ locals.procedural.kind = "None")
    => /\ TierSpecificAtCurrent # {}
            => /\ locals.template.kind = "Some"
               /\ locals.template.value \in TierSpecificAtCurrent
               /\ locals.template.value \notin GenericAt({life_stage})
               /\ ret.kind = "Event"
               /\ ret.value.title = event_database[locals.template.value].title
       /\ (/\ locals.template.kind = "Some"
           /\ locals.template.value \in GenericAt({life_stage}))
            => TierSpecificAtCurrent = {}

\* C15 witness: the fallback returned a tier-specific event while the same
\* index entry listed a generic one.
C15_Witness ==
    /\ call.fn = "generate_event"
    /\ locals.at = "generate_event"
    /\ locals.procedural.kind = "None"
    /\ TierSpecificAtCurrent # {}
    /\ GenericAt({life_stage}) # {}
    /\ ret.kind = "Event"
    /\ locals.template.kind = "Some"

\* the event returned is the diagnostic placeholder
PlaceholderReturned == ret.kind = "Event" /\ ret.value.title = <<"No Event Found!">>

\* C16: generate_event returns the placeholder exactly when procedural
\* generation returned None and the index lists no tier-specific or generic
\* event for the current stage and no generic event for a past stage, under
\* the player's tier; the placeholder has no procedural provenance and
\* exactly one option, with no requirements, risk_chance 0, an all-zero
\* success outcome and no failure outcome.
C16_PlaceholderLastResort ==
    (call.fn = "generate_event" /\ locals.at = "generate_event"
        /\ ret.kind = "Event")
    => /\ PlaceholderReturned
            <=> /\ locals.procedural.kind = "None"
                /\ TierSpecificAtCurrent = {}
                /\ GenericAt(1..life_stage) = {}
       /\ PlaceholderReturned
            => /\ ret.value.procedural_id = None
               /\ ret.value.procedural_domain = None
               /\ Len(ret.value.options) = 1
               /\ DOMAIN ret.value.options[1].requirements = {}
               /\ ret.value.options[1].risk_chance = 0
               /\ \A f \in StatFields : ret.value.options[1].success_outcome[f] = 0
               /\ ret.value.options[1].failure_outcome = None

\* C16 witness: the placeholder was returned to a player past life stage 1
\* while the index held events under another tier.
C16_Witness ==
    /\ call.fn = "generate_event"
    /\ locals.at = "generate_event"
    /\ PlaceholderReturned
    /\ life_stage >= 2
    /\ DOMAIN event_index # {}

\* the player meets every requirement of the handcrafted option
MeetsOption(option) ==
    \A key \in DOMAIN option.requirements :
        StatValue(key) >= option.requirements[key]

\* C17: when the fallback chose a handcrafted template, the event returned
\* is that template's with exactly the options whose requirements the player
\* meets, in template order and unchanged, also when none is left.
C17_FallbackOptionsFiltered ==
    (call.fn = "generate_event" /\ locals.at = "generate_event"
        /\ locals.procedural.kind = "None" /\ locals.template.kind = "Some")
    => LET template == event_database[locals.template.value]
       IN  /\ ret.kind = "Event"
           /\ ret.value.title = template.title
           /\ ret.value.description = template.description
           /\ ret.value.options = SelectSeq(template.options, MeetsOption)

\* C17 witness: the template chosen had options and none of them qualified.
C17_Witness ==
    /\ call.fn = "generate_event"
    /\ locals.at = "generate_event"
    /\ locals.procedural.kind = "None"
    /\ locals.template.kind = "Some"
    /\ event_database[locals.template.value].options # <<>>
    /\ ret.kind = "Event"
    /\ ret.value.options = <<>>

\* C26: an event returned by fallback step 3 belongs to the most recent of
\* the strictly earlier life stages that has a generic event for the player's
\* tier: no stage between the event's stage and the player's has one.
C26_MostRecentStageFirst ==
    (call.fn = "generate_event" /\ locals.at = "generate_event"
        /\ ret.kind = "Event" /\ locals.step = 3)
    => \A s \in (ret.value.life_stage + 1)..(life_stage - 1) : GenericAt({s}) = {}

\* the situations of the library
LibrarySituations ==
    UNION {{situation_library.by_domain[d][j] :
                j \in DOMAIN situation_library.by_domain[d]} : d \in EventDomain}

\* C25: an event that generate_procedural_event returned carries the id and
\* the domain of a situation of the library as procedural_id and
\* procedural_domain, and that situation's tier bounds as min_tier and
\* max_tier; a handcrafted fallback event and the placeholder carry neither
\* provenance field.
C25_ProvenanceBySource ==
    (call.fn = "generate_event" /\ locals.at = "generate_event"
        /\ ret.kind = "Event")
    => /\ locals.procedural.kind = "Some"
            => \E s \in LibrarySituations :
                  /\ locals.procedural.value.procedural_id = Some(s.id)
                  /\ locals.procedural.value.procedural_domain = Some(s.domain)
                  /\ locals.procedural.value.min_tier = s.tier_min
                  /\ locals.procedural.value.max_tier = s.tier_max
                  /\ ret.value = locals.procedural.value
       /\ locals.step \in 1..4
            => /\ ret.value.procedural_id = None
               /\ ret.value.procedural_domain = None

\* C25 witness: a handcrafted event was returned, without provenance, for a
\* player whose library holds a situation that procedural generation passed
\* over.
C25_Witness ==
    /\ call.fn = "generate_event"
    /\ locals.at = "generate_event"
    /\ ret.kind = "Event"
    /\ locals.step \in 1..3
    /\ locals.template.kind = "Some"
    /\ LibrarySituations # {}
    /\ ret.value.procedural_id = None

-----------------------------------------------------------------------------
(* Spec: the application.  One action is one frame of LotusApp::update in  *)
(* which one button is clicked; a frame without a click changes nothing    *)
(* the model keeps.                                                        *)

MaxEvents == 3

\* the samples of the roll gen_range(1..=100)
RollSamples == {1, 50, 100}

AppLibraries ==
    {EmptyLibrary,
     LibraryOf(<<Situation("s1", "Work", WideEligibility, PlainFragments,
                           <<PlainChoice, FamilyChoice>>)>>)}

Init ==
    /\ player_tier = 2
    /\ player_petal = 1
    /\ player_age = 25
    /\ life_stage = stage_from_age(25)
    /\ social_credit_score \in {500, 740}
    /\ finances = 0
    /\ career_level = 0
    /\ guanxi_family \in {0, 2}
    /\ guanxi_network = 0
    /\ guanxi_party = 0
    /\ recent_event_domains = <<>>
    /\ encounter_history = {}
    /\ situation_library \in AppLibraries
    /\ event_database = HandcraftedEvents
    /\ event_index \in IndexSamples
    /\ current_event = None
    /\ last_event_result = None
    /\ session_log = <<>>
    /\ call = NoCall
    /\ locals = NoLocals
    /\ ret = Pending
    /\ overflow_checks \in BOOLEAN

\* the move frame with the move buttons enabled while an event is open
MoveWhileOpen(new_petal, aged) ==
    LET new_age == IF aged THEN player_age + 1 ELSE player_age
        new_stage == IF aged THEN stage_from_age(new_age) ELSE life_stage
        birthday == IF new_stage # life_stage
                    THEN Some(<<"You've entered a new Life Stage", ToString(new_stage)>>)
                    ELSE Some(<<"Happy Birthday!", ToString(new_age)>>)
    IN  /\ ret # Panic
        /\ Len(session_log) < MaxEvents
        /\ player_petal' = new_petal
        /\ player_age' = new_age
        /\ life_stage' = new_stage
        /\ locals' = [at |-> "move"]
        /\ IF ~is_review_petal(new_petal)
           THEN /\ \E run \in generate_event(
                                [PlayerState EXCEPT !.life_stage = new_stage],
                                overflow_checks) :
                      IF run.result.kind = "Event"
                      THEN /\ current_event' = Some(run.result.value)
                           /\ session_log' =
                                  Append(session_log, run.result.value.procedural_id)
                           /\ ret' = ret
                      ELSE /\ current_event' = current_event
                           /\ session_log' = session_log
                           /\ ret' = Panic
                /\ last_event_result' = None
                /\ player_tier' = player_tier
           ELSE /\ current_event' = None
                /\ last_event_result' =
                       IF new_petal # 0 THEN None
                       ELSE IF aged THEN birthday ELSE last_event_result
                /\ player_tier' = tier_from_scs(social_credit_score)
                /\ UNCHANGED <<session_log, ret>>
        /\ UNCHANGED <<social_credit_score, finances, career_level,
                       guanxi_family, guanxi_network, guanxi_party,
                       recent_event_domains, encounter_history,
                       situation_library, event_database, event_index,
                       call, overflow_checks>>

\* the frame of a click on a move button that lands on new_petal; aged says
\* whether the move passed the start of the lap (age_up)
Move(new_petal, aged) ==
    LET new_age == IF aged THEN player_age + 1 ELSE player_age
        new_stage == IF aged THEN stage_from_age(new_age) ELSE life_stage
        birthday == IF new_stage # life_stage
                    THEN Some(<<"You've entered a new Life Stage", ToString(new_stage)>>)
                    ELSE Some(<<"Happy Birthday!", ToString(new_age)>>)
    IN  /\ current_event = None
        /\ ret # Panic
        /\ Len(session_log) < MaxEvents
        /\ player_petal' = new_petal
        /\ player_age' = new_age
        /\ life_stage' = new_stage
        /\ locals' = [at |-> "move"]
        /\ IF ~is_review_petal(new_petal)
           THEN /\ \E run \in generate_event(
                                [PlayerState EXCEPT !.life_stage = new_stage],
                                overflow_checks) :
                      IF run.result.kind = "Event"
                      THEN /\ current_event' = Some(run.result.value)
                           /\ session_log' =
                                  Append(session_log, run.result.value.procedural_id)
                           /\ ret' = ret
                      ELSE /\ current_event' = current_event
                           /\ session_log' = session_log
                           /\ ret' = Panic
                /\ last_event_result' = None
                /\ player_tier' = player_tier
           ELSE /\ current_event' = None
                /\ last_event_result' =
                       IF new_petal # 0 THEN None
                       ELSE IF aged THEN birthday ELSE last_event_result
                /\ player_tier' = tier_from_scs(social_credit_score)
                /\ UNCHANGED <<session_log, ret>>
        /\ UNCHANGED <<social_credit_score, finances, career_level,
                       guanxi_family, guanxi_network, guanxi_party,
                       recent_event_domains, encounter_history,
                       situation_library, event_database, event_index,
                       call, overflow_checks>>

MoveCounterClockwise ==
    LET new_petal == (player_petal + num_petals_per_tier - 1) % num_petals_per_tier
    IN  Move(new_petal, new_petal > player_petal)

MoveClockwise ==
    LET new_petal == (player_petal + 1) % num_petals_per_tier
    IN  Move(new_petal, new_petal < player_petal)

\* apply_outcome; the two i32 sums can overflow
ApplyOutcome(outcome) ==
    LET overflowed ==
            \/ add_overflows(social_credit_score, outcome.scs_change)
            \/ add_overflows(finances, outcome.finance_change)
    IN  /\ social_credit_score' =
               wrapping_add(social_credit_score, outcome.scs_change)
        /\ finances' = wrapping_add(finances, outcome.finance_change)
        /\ career_level' =
               saturating_add_signed(career_level, outcome.career_level_change)
        /\ guanxi_family' =
               saturating_add_signed(guanxi_family, outcome.guanxi_family_change)
        /\ guanxi_network' =
               saturating_add_signed(guanxi_network, outcome.guanxi_network_change)
        /\ guanxi_party' =
               saturating_add_signed(guanxi_party, outcome.guanxi_party_change)
        /\ ret' = IF overflow_checks /\ overflowed THEN Panic ELSE ret

\* the frame of a click on the button of option i of the open event
ClickOption(i) ==
    /\ current_event.kind = "Some"
    /\ ret # Panic
    /\ i \in DOMAIN current_event.value.options
    /\ LET option == current_event.value.options[i]
       IN  \E roll \in RollSamples :
              /\ locals' = [at |-> "click", option |-> i, roll |-> roll]
              /\ IF option.risk_chance > 0 /\ roll <= option.risk_chance
                 THEN /\ IF option.failure_outcome.kind = "Some"
                         THEN ApplyOutcome(option.failure_outcome.value)
                         ELSE UNCHANGED <<social_credit_score, finances,
                                          career_level, guanxi_family,
                                          guanxi_network, guanxi_party, ret>>
                      /\ last_event_result' = Some(option.failure_result)
                 ELSE /\ ApplyOutcome(option.success_outcome)
                      /\ last_event_result' = Some(option.success_result)
    /\ current_event' = None
    /\ UNCHANGED <<player_tier, life_stage, player_age, player_petal,
                   recent_event_domains, encounter_history, situation_library,
                   event_database, event_index, session_log, call,
                   overflow_checks>>

ClickSomeOption ==
    /\ current_event.kind = "Some"
    /\ \E i \in DOMAIN current_event.value.options : ClickOption(i)

Next ==
    \/ MoveCounterClockwise
    \/ MoveClockwise
    \/ ClickSomeOption

Spec == Init /\ [][Next]_vars

\* C4: whenever an event is open, a click on one of its options is possible
\* and closes it, so the move controls become usable again.
C4_OpenEventResolvable ==
    current_event.kind = "Some" => current_event.value.options # <<>>

\* C9: no procedural situation id is presented twice in a session.
C9_NoRepeatInSession ==
    \A i, j \in DOMAIN session_log :
        (i < j /\ session_log[i].kind = "Some") => session_log[i] # session_log[j]

\* one frame, as C29 allows it
EventOpenedOnlyByMove ==
    LET moved == locals'.at = "move"
        generated == Len(session_log') - Len(session_log)
    IN  /\ current_event.kind = "Some"
            => /\ ~moved
               /\ player_petal' = player_petal
               /\ generated = 0
               /\ current_event' \in {current_event, None}
        /\ generated # 0 => moved /\ current_event = None
        /\ (moved /\ ret' # Panic)
            => IF player_petal' \in {0, 4, 8}
               THEN current_event' = None /\ generated = 0
               ELSE /\ current_event'.kind = "Some"
                    /\ generated = 1
                    /\ session_log'[Len(session_log')]
                           = current_event'.value.procedural_id

\* C29: an event is generated only by a move made while no event is open:
\* while current_event is Some no move happens and the open event is not
\* replaced; a move onto a non-review petal opens exactly one new event and
\* a move onto a review petal (0, 4 or 8) leaves no event open.
C29_EventsOpenedOnlyByMoves == [][EventOpenedOnlyByMove]_vars

\* C29 witness: after a move onto the review petal 4, which opened nothing,
\* a move onto petal 5 opened the third event of the session.
C29_Witness ==
    /\ locals.at = "move"
    /\ player_petal = 5
    /\ player_age = 25
    /\ current_event.kind = "Some"
    /\ Len(session_log) = 3

\* one frame, as C30 allows it: a click on an option of the open event
OptionResolvedOnce ==
    locals'.at = "click"
    => /\ current_event.kind = "Some"
       /\ locals'.option \in DOMAIN current_event.value.options
       /\ locals'.roll \in 1..100
       /\ LET option == current_event.value.options[locals'.option]
              failed == option.risk_chance > 0 /\ locals'.roll <= option.risk_chance
              applied == IF ~failed THEN option.success_outcome
                         ELSE IF option.failure_outcome.kind = "Some"
                              THEN option.failure_outcome.value
                              ELSE [f \in StatFields |-> 0]
          IN  /\ option.risk_chance = 0 => ~failed
              /\ last_event_result' = Some(IF failed THEN option.failure_result
                                           ELSE option.success_result)
              /\ ret' # Panic
                  => /\ social_credit_score' = social_credit_score + applied.scs_change
                     /\ finances' = finances + applied.finance_change
                     /\ career_level' =
                            Max(career_level + applied.career_level_change, 0)
                     /\ guanxi_family' =
                            Max(guanxi_family + applied.guanxi_family_change, 0)
                     /\ guanxi_network' =
                            Max(guanxi_network + applied.guanxi_network_change, 0)
                     /\ guanxi_party' =
                            Max(guanxi_party + applied.guanxi_party_change, 0)
       /\ current_event' = None

\* C30: a click on an option takes the failure branch if and only if
\* risk_chance > 0 and roll <= risk_chance, for a roll in 1..100; it applies
\* the failure outcome if the branch is the failure branch and the outcome is
\* present, nothing if it is absent, and the success outcome otherwise; the
\* unsigned stats stop at 0; afterwards current_event is None.
C30_OptionResolvedOnce == [][OptionResolvedOnce]_vars

\* C30 witness: a failed option was resolved whose outcome took an unsigned
\* stat below zero: the stat is 0 and the event is closed.
C30_Witness ==
    /\ locals.at = "click"
    /\ current_event = None
    /\ last_event_result.kind = "Some"
    /\ Len(last_event_result.value) = 3
    /\ last_event_result.value[3] = "but it backfired."
    /\ career_level = 0
    /\ social_credit_score < 500

====
